---------------------------- MODULE Spec2Model ----------------------------
(***************************************************************************)
(* A model of syncps (SyncPubsub, the IBLT it reconciles with, and the     *)
(* CRshim callbacks it is constructed with) as a state machine.            *)
(*                                                                         *)
(* 32-bit unsigned words are pairs <<hi, lo>> of 16-bit halves, because    *)
(* the checker's integers are 32-bit signed; all word arithmetic is        *)
(* modulo 2^32 as in the C++ code.                                         *)
(***************************************************************************)
EXTENDS Integers, Sequences, FiniteSets, TLC

(***************************************************************************)
(* 32-bit words                                                            *)
(***************************************************************************)
B16 == 256 * 256

W(hi, lo) == <<hi, lo>>
W0 == <<0, 0>>
\* a small natural number as a word
WordOf(n) == <<n \div B16, n % B16>>

RECURSIVE XorNat(_, _, _)
\* bitwise exclusive or of two naturals below 2^bits
XorNat(a, b, bits) ==
  IF bits = 0 THEN 0
  ELSE ((a + b) % 2) + 2 * XorNat(a \div 2, b \div 2, bits - 1)

\* exclusive or of bytes, tabulated once
XorTab == [a \in 0..255 |-> [b \in 0..255 |-> XorNat(a, b, 8)]]
Xor16(a, b) ==
  XorTab[a \div 256][b \div 256] * 256 + XorTab[a % 256][b % 256]
\* the values of a uint32
Word32 == (0..(B16 - 1)) \X (0..(B16 - 1))

\* The operations on words are functions: their operands are values, as the
\* operands of the C++ operators are
\* uint32 ^ uint32
Xor32 == [x \in Word32, y \in Word32 |-> <<Xor16(x[1], y[1]), Xor16(x[2], y[2])>>]

\* (a * b) mod 2^16 for a, b below 2^16, without leaving 31 bits
MulLo16(a, b) == ((((a * (b \div 256)) % 256) * 256) + a * (b % 256)) % B16
\* the carry of a * b into the upper half: (a * b) div 2^16
MulHi16(a, b) ==
  ((a * (b \div 256)) \div 256)
    + (((((a * (b \div 256)) % 256) * 256) + a * (b % 256)) \div B16)

\* uint32 * uint32, truncated to 32 bits
Mul32 ==
  [x \in Word32, y \in Word32 |->
     <<(MulHi16(x[2], y[2]) + MulLo16(x[1], y[2]) + MulLo16(x[2], y[1])) % B16,
       MulLo16(x[2], y[2])>>]

\* uint32 + uint32, truncated to 32 bits
Add32 ==
  [x \in Word32, y \in Word32 |->
     <<(x[1] + y[1] + ((x[2] + y[2]) \div B16)) % B16, (x[2] + y[2]) % B16>>]

Pow2 == [i \in 0..16 |-> 2^i]

\* x >> r for 0 < r <= 16
Shr32 ==
  [x \in Word32, r \in 1..16 |->
     IF r = 16 THEN <<0, x[1]>>
     ELSE <<x[1] \div Pow2[r], ((x[1] % Pow2[r]) * Pow2[16 - r]) + (x[2] \div Pow2[r])>>]

\* (x << r) | (x >> (32 - r)) for 0 < r < 16
ROTL32 ==
  [x \in Word32, r \in 1..15 |->
     <<((x[1] * Pow2[r]) % B16) + (x[2] \div Pow2[16 - r]),
       ((x[2] * Pow2[r]) % B16) + (x[1] \div Pow2[16 - r])>>]

\* x % m for a small positive m
Mod32(x, m) == (((x[1] % m) * (B16 % m)) + x[2]) % m

\* the four bytes of a word, least significant first
BytesLE(x) == <<x[2] % 256, x[2] \div 256, x[1] % 256, x[1] \div 256>>
\* the word read from four bytes, least significant first
WordLE(b0, b1, b2, b3) == <<b3 * 256 + b2, b1 * 256 + b0>>

(***************************************************************************)
(* murmurHash3 (x86_32)                                                    *)
(***************************************************************************)
N_HASH == 3
N_HASHCHECK == 11

c1 == <<52382, 11601>>        \* 0xcc9e2d51
c2 == <<7047, 13715>>         \* 0x1b873593
cAdd == <<58964, 27492>>      \* 0xe6546b64
cMix1 == <<34283, 51819>>     \* 0x85ebca6b
cMix2 == <<49842, 44597>>     \* 0xc2b2ae35

\* k1 *= c1; k1 = ROTL32(k1, 15); k1 *= c2
MixK(k1) == Mul32[ROTL32[Mul32[k1, c1], 15], c2]

\* one 4-byte block folded into h1
MixBlock(h1, k1) ==
  Add32[Mul32[ROTL32[Xor32[h1, MixK(k1)], 13], WordOf(5)], cAdd]

\* h ^= h >> r
XorShift(h, r) == Xor32[h, Shr32[h, r]]

\* the final avalanche
FMix(h) ==
  XorShift(Mul32[XorShift(Mul32[XorShift(h, 16), cMix1], 13), cMix2], 16)

RECURSIVE MurmurBlocks(_, _, _, _)
\* the loop over the whole blocks data[4i+1 .. 4i+4], i from 'i' to nblocks - 1
MurmurBlocks(h1, data, i, nblocks) ==
  IF i = nblocks THEN h1
  ELSE MurmurBlocks(
         MixBlock(h1, WordLE(data[4*i + 1], data[4*i + 2], data[4*i + 3], data[4*i + 4])),
         data, i + 1, nblocks)

\* the bytes after the last whole block as the word k1 of the switch
TailWord(data) ==
  LET n == Len(data)
  IN  <<IF n % 4 >= 3 THEN data[n - (n % 4) + 3] ELSE 0,
        (IF n % 4 >= 2 THEN data[n - (n % 4) + 2] ELSE 0) * 256
          + data[n - (n % 4) + 1]>>

\* the switch over the 0..3 bytes after the last whole block
MurmurTail(h1, data) ==
  IF Len(data) % 4 = 0 THEN h1 ELSE Xor32[h1, MixK(TailWord(data))]

\* murmurHash3(seed, vector<unsigned char>)
murmurHash3Bytes(nHashSeed, vDataToHash) ==
  FMix(Xor32[MurmurTail(MurmurBlocks(WordOf(nHashSeed), vDataToHash, 0,
                                     Len(vDataToHash) \div 4),
                        vDataToHash),
             WordOf(Len(vDataToHash))])

\* murmurHash3(seed, uint32_t): the hash of the value's four bytes
murmurHash3(nHashSeed, value) ==
  FMix(Xor32[MixBlock(WordOf(nHashSeed), value), WordOf(4)])

(***************************************************************************)
(* HashTableEntry and IBLT.  A table is a function from the cell indices   *)
(* 0 .. N-1 to cells; count is the signed 32-bit count.                    *)
(***************************************************************************)
INSERT == 1
ERASE == -1

EmptyEntry == [count |-> 0, keySum |-> W0, keyCheck |-> W0]

\* HashTableEntry::isPure
isPure(e) ==
  IF e.count = 1 \/ e.count = -1
  THEN e.keyCheck = murmurHash3(N_HASHCHECK, e.keySum)
  ELSE FALSE

\* HashTableEntry::isEmpty
isEmpty(e) == e.count = 0 /\ e.keySum = W0 /\ e.keyCheck = W0

\* the cell count without the rounding to a multiple of N_HASH
NumCellsUnrounded(expectedNumEntries) ==
  expectedNumEntries + expectedNumEntries \div 2

\* the number of cells IBLT(expectedNumEntries) allocates
NumCells(expectedNumEntries) ==
  LET nEntries == expectedNumEntries + expectedNumEntries \div 2
      remainder == nEntries % N_HASH
  IN  IF remainder # 0 THEN nEntries + (N_HASH - remainder) ELSE nEntries

\* IBLT::IBLT(size_t expectedNumEntries): all cells zeroed
NewIBLT(expectedNumEntries) ==
  [i \in 0..(NumCells(expectedNumEntries) - 1) |-> EmptyEntry]

TableSize(t) == Cardinality(DOMAIN t)

\* IBLT::hash0, hash1, hash2: the cell of 'key' in sub-table i
hashN(t, i, key) ==
  Mod32(murmurHash3(i, key), TableSize(t) \div N_HASH) + (TableSize(t) \div N_HASH) * i

\* IBLT::chkPeer
chkPeer(t, key, idx) ==
  isEmpty(t[idx]) \/ (isPure(t[idx]) /\ t[idx].keySum # key)

\* badPeers that looks for empty cells only
badPeersEmpty(t, key) ==
  \E i \in 0..(N_HASH - 1) : isEmpty(t[hashN(t, i, key)])

\* IBLT::badPeers
badPeers(t, key) ==
  \E i \in 0..(N_HASH - 1) : chkPeer(t, key, hashN(t, i, key))

\* updateEntry that leaves keyCheck alone
updateEntryNoCheck(entry, plusOrMinus, key, check) ==
  [count |-> entry.count + plusOrMinus,
   keySum |-> Xor32[entry.keySum, key],
   keyCheck |-> entry.keyCheck]

\* the entry after one turn of the loop of IBLT::update
updateEntry(entry, plusOrMinus, key, check) ==
  [count |-> entry.count + plusOrMinus,
   keySum |-> Xor32[entry.keySum, key],
   keyCheck |-> Xor32[entry.keyCheck, check]]

RECURSIVE updateLoop(_, _, _, _, _)
\* the loop of IBLT::update from sub-table i on; check is
\* murmurHash3(N_HASHCHECK, key)
updateLoop(t, plusOrMinus, key, check, i) ==
  IF i = N_HASH THEN t
  ELSE updateLoop([t EXCEPT ![hashN(t, i, key)] =
                     updateEntry(@, plusOrMinus, key, check)],
                  plusOrMinus, key, check, i + 1)

\* IBLT::update
update(t, plusOrMinus, key) ==
  updateLoop(t, plusOrMinus, key, murmurHash3(N_HASHCHECK, key), 0)

\* IBLT::insert
insert(t, key) == update(t, INSERT, key)

\* erase with its check inverted
eraseInverted(t, key) == IF badPeers(t, key) THEN update(t, ERASE, key) ELSE t

\* IBLT::erase: refused (the table is left alone) when the key has bad peers
erase(t, key) == IF badPeers(t, key) THEN t ELSE update(t, ERASE, key)

\* IBLT::operator-
Subtract(t, other) ==
  [i \in DOMAIN t |->
     [count |-> t[i].count - other[i].count,
      keySum |-> Xor32[t[i].keySum, other[i].keySum],
      keyCheck |-> Xor32[t[i].keyCheck, other[i].keyCheck]]]

\* operator==(IBLT, IBLT)
EqualIBLT(t1, t2) ==
  /\ TableSize(t1) = TableSize(t2)
  /\ \A i \in DOMAIN t1 :
        /\ t1[i].count = t2[i].count
        /\ t1[i].keySum = t2[i].keySum
        /\ t1[i].keyCheck = t2[i].keyCheck

\* what listEntries has when it leaves: ok is the value it returns
Listed(ok, done, peeled, positive, negative) ==
  [ok |-> ok, done |-> done, peeled |-> peeled, positive |-> positive,
   negative |-> negative]

RECURSIVE listPass(_, _, _, _, _)
\* one pass of the for loop of IBLT::listEntries over the cells i, i+1, ...
\* of the peeled copy; the loop sees the cells as earlier peels left them
listPass(peeled, i, positive, negative, peeledSomething) ==
  IF i = TableSize(peeled)
  THEN Listed(TRUE, ~peeledSomething, peeled, positive, negative)
  ELSE IF ~isPure(peeled[i])
  THEN listPass(peeled, i + 1, positive, negative, peeledSomething)
  ELSE IF badPeers(peeled, peeled[i].keySum)
  THEN Listed(FALSE, TRUE, peeled, positive, negative)
  ELSE listPass(update(peeled, -peeled[i].count, peeled[i].keySum), i + 1,
                IF peeled[i].count = 1 THEN positive \cup {peeled[i].keySum}
                                       ELSE positive,
                IF peeled[i].count = 1 THEN negative
                                       ELSE negative \cup {peeled[i].keySum},
                TRUE)

RECURSIVE listLoop(_, _, _)
\* the while (peeledSomething) of IBLT::listEntries, after a pass left r
listAgain(r) == IF r.done THEN r ELSE listLoop(r.peeled, r.positive, r.negative)

\* the do ... while loop of IBLT::listEntries
listLoop(peeled, positive, negative) ==
  listAgain(listPass(peeled, 0, positive, negative, FALSE))

\* IBLT::listEntries: ok is the return value, positive and negative are the
\* sets as the call leaves them (kept when it returns false)
listEntries(t) == listLoop(t, {}, {})

(***************************************************************************)
(* The IBLT as a name component.  The zlib stream is kept abstract: a      *)
(* component is [deflated |-> bytes], and inflating gives the bytes back.  *)
(***************************************************************************)
\* the signed count as the uint32 the shifts and masks of appendToName see
CountWord(count) ==
  IF count >= 0 THEN WordOf(count)
  ELSE <<(B16 - 1) - ((-count - 1) \div B16), (B16 - 1) - ((-count - 1) % B16)>>

\* uint32 to int32, as entry.count = values[i * 3] converts
CountOf(w) == IF w[1] >= 32768 THEN (w[1] - B16) * B16 + w[2] ELSE w[1] * B16 + w[2]

RECURSIVE tableBytes(_, _)
\* the table of appendToName: 12 bytes a cell, from cell i on
tableBytes(t, i) ==
  IF i = TableSize(t) THEN <<>>
  ELSE BytesLE(CountWord(t[i].count)) \o BytesLE(t[i].keySum)
         \o BytesLE(t[i].keyCheck) \o tableBytes(t, i + 1)

\* IBLT::appendToName: the component appended to the name
appendToName(t) == [deflated |-> tableBytes(t, 0)]

\* IBLT::extractValueFromName: the inflated bytes as uint32 values
extractValueFromName(ibltName) ==
  [i \in 0..((Len(ibltName.deflated) \div 4) - 1) |->
     WordLE(ibltName.deflated[4*i + 1], ibltName.deflated[4*i + 2],
            ibltName.deflated[4*i + 3], ibltName.deflated[4*i + 4])]

\* the cells IBLT::initialize fills from the values; ok is FALSE where it
\* throws
initializeFrom(t, values) ==
  IF 3 * TableSize(t) # Cardinality(DOMAIN values)
  THEN [ok |-> FALSE, iblt |-> t]
  ELSE [ok |-> TRUE,
        iblt |-> [i \in DOMAIN t |->
                    IF values[i * 3] # W0
                    THEN [count |-> CountOf(values[i * 3]),
                          keySum |-> values[i * 3 + 1],
                          keyCheck |-> values[i * 3 + 2]]
                    ELSE t[i]]]

\* IBLT::initialize on a fresh IBLT 't'
initialize(t, ibltName) == initializeFrom(t, extractValueFromName(ibltName))

(***************************************************************************)
(* Names and publications.  A name component is <<kind, value>>: kind 0 is *)
(* a generic component, kind 1 a timestamp component (appendTimestamp),    *)
(* which sorts after every generic one.  A publication is its name and    *)
(* the size of its content; the publisher's id is a component of the name, *)
(* as the shim's names carry the publisher's identity.                     *)
(***************************************************************************)
Comp(v) == <<0, v>>
TimestampComp(t) == <<1, t>>
\* name::Component::toTimestamp, in ms
toTimestamp(c) == c[2]

CompLess(a, b) == a[1] < b[1] \/ (a[1] = b[1] /\ a[2] < b[2])

RECURSIVE NameLess(_, _)
\* Name::compare(a, b) < 0: component by component, a proper prefix first
NameLess(a, b) ==
  IF b = <<>> THEN FALSE
  ELSE IF a = <<>> THEN TRUE
  ELSE IF CompLess(a[1], b[1]) THEN TRUE
  ELSE IF CompLess(b[1], a[1]) THEN FALSE
  ELSE NameLess(Tail(a), Tail(b))

\* Name::isPrefixOf
isPrefixOf(a, b) == Len(a) <= Len(b) /\ SubSeq(b, 1, Len(a)) = a

RECURSIVE nameBytes(_)
\* the bytes a name contributes to the wire encoding
nameBytes(name) ==
  IF name = <<>> THEN <<>>
  ELSE (IF name[1][1] = 0 THEN <<8, name[1][2]>>
        ELSE <<36, name[1][2] % 256, name[1][2] \div 256>>)
       \o nameBytes(Tail(name))

\* Publication::wireEncode: one-to-one on the publications of the model;
\* the content is pub.content zero bytes, after its type and length
wireEncode(pub) ==
  nameBytes(pub.name) \o <<21, pub.content>> \o [i \in 1..pub.content |-> 0]

\* SyncPubsub::hashPub
hashPub(pub) == murmurHash3Bytes(N_HASHCHECK, wireEncode(pub))

(***************************************************************************)
(* Program constants (times in ms) and the bounds of the model             *)
(***************************************************************************)
syncpsContent == 129
tlvData == 6
maxPubSize == 1300
maxPubLifetime == 1000
maxClockSkew == 1000
defaultSyncInterestLifetime == 4000
reExpressLead == 20
soonDelay == 3

\* the expectedNumEntries the engines are constructed with
ExpectedNumEntries == 4
\* the model stops the clock here
MaxTime == 2100
\* the clock advances to the next timer, or by this much when none is nearer
TimeStep == 1000
\* publish calls of the first engine
MaxPublish == 2
\* publish calls of the second engine
PeerPublish == 1
\* how far the first engine's clock is ahead (below maxClockSkew)
ClockAhead == 900
\* the applications publish until this time
PublishBy == 0
\* packets the network may hold back while the clock advances
MaxHeld == 1
\* operations on the IBLT under test
MaxOps == 4

(***************************************************************************)
(* Small helpers on functions and sets                                     *)
(***************************************************************************)
Without(f, k) == [j \in (DOMAIN f) \ {k} |-> f[j]]
With(f, k, v) == (k :> v) @@ f

WordLess(a, b) == a[1] < b[1] \/ (a[1] = b[1] /\ a[2] < b[2])

RECURSIVE WordsAscending(_)
\* the elements of a std::set<uint32_t> in iteration order
WordsAscending(S) ==
  IF S = {} THEN <<>>
  ELSE LET m == CHOOSE a \in S : \A b \in S \ {a} : WordLess(a, b)
       IN  <<m>> \o WordsAscending(S \ {m})

(***************************************************************************)
(* One SyncPubsub engine.  The record holds the fields of the class, the   *)
(* events of its scheduler, and                                            *)
(*   out       the calls made on the face by the handler that is running  *)
(*   delivered the subscription callbacks invoked so far                   *)
(*   admitted  every addToActive so far, with its time                     *)
(* A handle (shared_ptr<Publication>) is [id, pub]; id, the time of the    *)
(* make_shared, tells the handles of one publication apart.                *)
(***************************************************************************)
NoPub == [name |-> <<>>, content |-> 0]
NoHandle == [id |-> 0, pub |-> NoPub]

NewEngine(id, skew, subs) ==
  [id |-> id,
   skew |-> skew,
   m_expectedNumEntries |-> ExpectedNumEntries,
   m_iblt |-> NewIBLT(ExpectedNumEntries),
   m_interests |-> <<>>,
   m_active |-> <<>>,
   m_hash2pub |-> <<>>,
   m_subscription |-> subs,
   m_syncInterestLifetime |-> defaultSyncInterestLifetime,
   m_scheduledSyncInterestId |-> 0,
   m_currentInterest |-> 0,
   m_publications |-> 0,
   m_interestsSent |-> 0,
   m_delivering |-> FALSE,
   m_registering |-> TRUE,
   timers |-> {},
   nextSeq |-> 1,
   out |-> <<>>,
   delivered |-> <<>>,
   admitted |-> {}]

\* ndn::system_clock::now() at the engine, when the true time is t
clockOf(e, t) == t + e.skew

\* Scheduler::schedule: the event and its id
schedule(e, t, after, kind, h, hash) ==
  [e EXCEPT !.timers = @ \cup {[at |-> t + after, seq |-> e.nextSeq, kind |-> kind,
                                h |-> h, hash |-> hash]},
            !.nextSeq = @ + 1]

\* rescheduleSync that leaves the event scheduled before in the scheduler
rescheduleKeep(e, t, after) ==
  [e EXCEPT !.timers = @ \cup {[at |-> t + after, seq |-> e.nextSeq, kind |-> "sync",
                                h |-> NoHandle, hash |-> W0]},
            !.nextSeq = @ + 1,
            !.m_scheduledSyncInterestId = e.nextSeq]

\* m_scheduledSyncInterestId = m_scheduler.schedule(after, sendSyncInterest):
\* assigning to the ScopedEventId cancels the event it held
rescheduleSync(e, t, after) ==
  [e EXCEPT !.timers = {tm \in @ : tm.seq # e.m_scheduledSyncInterestId}
                         \cup {[at |-> t + after, seq |-> e.nextSeq, kind |-> "sync",
                                h |-> NoHandle, hash |-> W0]},
            !.nextSeq = @ + 1,
            !.m_scheduledSyncInterestId = e.nextSeq]

\* reExpressSyncInterest that schedules nothing
reExpressNever(e, t) == e

\* SyncPubsub::reExpressSyncInterest
reExpressSyncInterest(e, t) ==
  rescheduleSync(e, t, e.m_syncInterestLifetime - reExpressLead)

\* ndn::random::generateWord32(): a word the engine has not drawn before
\* and no other engine draws
generateWord32(e) == e.id * 1000 + e.m_interestsSent + 1

\* expressSync that does not record the nonce
expressUntracked(e, name, nonce) ==
  [e EXCEPT !.out = Append(@, [op |-> "express", nonce |-> nonce, name |-> name,
                               lifetime |-> e.m_syncInterestLifetime,
                               content |-> <<>>]),
            !.m_interestsSent = @ + 1]

\* m_face.expressInterest of the sync interest named 'name'
expressSync(e, name, nonce) ==
  [e EXCEPT !.m_currentInterest = nonce,
            !.out = Append(@, [op |-> "express", nonce |-> nonce, name |-> name,
                               lifetime |-> e.m_syncInterestLifetime,
                               content |-> <<>>]),
            !.m_interestsSent = @ + 1]

\* sendSyncInterest without the test of m_registering
sendSyncInterestUnguarded(e, t) ==
  expressSync(reExpressSyncInterest(e, t), <<appendToName(e.m_iblt)>>,
              generateWord32(e))

\* SyncPubsub::sendSyncInterest
sendSyncInterest(e, t) ==
  IF e.m_registering THEN e
  ELSE expressSync(reExpressSyncInterest(e, t), <<appendToName(e.m_iblt)>>,
                   generateWord32(e))

\* sendSyncInterestSoon that schedules nothing
sendSyncInterestNotSoon(e, t) == e

\* SyncPubsub::sendSyncInterestSoon
sendSyncInterestSoon(e, t) == rescheduleSync(e, t, soonDelay)

\* SyncPubsub::isKnown(uint32_t)
isKnownHash(e, h) == h \in DOMAIN e.m_hash2pub
\* isKnown that finds nothing
isKnownNever(e, pub) == FALSE

\* isKnown that compares the publications, not their digests
isKnownSame(e, pub) ==
  /\ hashPub(pub) \in DOMAIN e.m_hash2pub
  /\ e.m_hash2pub[hashPub(pub)].pub = pub

\* SyncPubsub::isKnown(const Publication&)
isKnown(e, pub) == isKnownHash(e, hashPub(pub))

\* scheduleLifetime with the removal a lifetime late
scheduleLifetimeLate(e, t, p, hash) ==
  schedule(schedule(schedule(e, t, maxPubLifetime, "expire", p, hash),
                    t, maxPubLifetime + maxClockSkew, "erase", p, hash),
           t, maxPubLifetime * 3, "remove", p, hash)

\* the three events addToActive schedules for the handle p
scheduleLifetime(e, t, p, hash) ==
  schedule(schedule(schedule(e, t, maxPubLifetime, "expire", p, hash),
                    t, maxPubLifetime + maxClockSkew, "erase", p, hash),
           t, maxPubLifetime * 2, "remove", p, hash)

\* addHashed that inserts the digest twice
addHashedTwice(e, t, p, localPub, hash) ==
  scheduleLifetime(
    [e EXCEPT !.m_active = With(@, p, IF localPub THEN 3 ELSE 1),
              !.m_hash2pub = With(@, hash, p),
              !.m_iblt = insert(insert(@, hash), hash),
              !.admitted = @ \cup {[hash |-> hash, pub |-> p.pub, t0 |-> t,
                                    local |-> localPub]}],
    t, p, hash)

\* the body of addToActive, hash being hashPub(pub) and p the new handle
addHashed(e, t, p, localPub, hash) ==
  scheduleLifetime(
    [e EXCEPT !.m_active = With(@, p, IF localPub THEN 3 ELSE 1),
              !.m_hash2pub = With(@, hash, p),
              !.m_iblt = insert(@, hash),
              !.admitted = @ \cup {[hash |-> hash, pub |-> p.pub, t0 |-> t,
                                    local |-> localPub]}],
    t, p, hash)

\* SyncPubsub::addToActive
addToActive(e, t, pub, localPub) ==
  addHashed(e, t, [id |-> t, pub |-> pub], localPub, hashPub(pub))

\* removeFromActive that leaves the digest in the side table
removeFromActiveStore(e, p) == [e EXCEPT !.m_active = Without(@, p)]

\* SyncPubsub::removeFromActive
removeFromActive(e, p) ==
  [e EXCEPT !.m_active = Without(@, p),
            !.m_hash2pub = Without(@, hashPub(p.pub))]

\* expireCb that leaves the live bit set
expireNever(e, p) == e

\* the callback scheduled at maxPubLifetime: m_active[p] &= ~1U
expireCb(e, p) ==
  [e EXCEPT !.m_active =
     With(@, p, IF p \in DOMAIN @ THEN @[p] - (@[p] % 2) ELSE 0)]

\* eraseCb that leaves the member IBLT alone
eraseCbKeep(e, t, hash) == sendSyncInterestSoon(e, t)

\* the callback scheduled at maxPubLifetime + maxClockSkew
eraseCb(e, t, hash) ==
  sendSyncInterestSoon([e EXCEPT !.m_iblt = erase(@, hash)], t)

(***************************************************************************)
(* The callbacks CRshim constructs the engine with                         *)
(***************************************************************************)
\* the timestamp in the last component of a publication's name
pubTimestamp(pub) == toTimestamp(pub.name[Len(pub.name)])

\* isExpired without the test for timestamps ahead of the clock
isExpiredOld(pub, clock) ==
  clock - pubTimestamp(pub) >= maxPubLifetime + maxClockSkew

\* CRshim::isExpired, with 'clock' the value of system_clock::now()
isExpired(pub, clock) ==
  \/ clock - pubTimestamp(pub) >= maxPubLifetime + maxClockSkew
  \/ clock - pubTimestamp(pub) <= -maxClockSkew

RECURSIVE insertByTimestamp(_, _)
\* p placed in a list that is already most recent first
insertByTimestamp(sorted, p) ==
  IF sorted = <<>> THEN <<p>>
  ELSE IF pubTimestamp(p.pub) > pubTimestamp(sorted[1].pub)
       THEN <<p>> \o sorted
       ELSE <<sorted[1]>> \o insertByTimestamp(Tail(sorted), p)

RECURSIVE sortByTimestamp(_)
\* std::sort(begin, end, cmp) with cmp "timestamp greater": most recent
\* first, publications of equal timestamp in the order they came in
sortByTimestamp(list) ==
  IF list = <<>> THEN <<>>
  ELSE insertByTimestamp(sortByTimestamp(SubSeq(list, 1, Len(list) - 1)),
                         list[Len(list)])

\* filterPubs that answers with the others' publications alone
filterPubsAny(pOurs, pOthers) ==
  (IF Len(pOurs) > 1 THEN sortByTimestamp(pOurs) ELSE pOurs) \o sortByTimestamp(pOthers)

\* CRshim::filterPubs
filterPubs(pOurs, pOthers) ==
  IF pOurs = <<>> THEN pOurs
  ELSE (IF Len(pOurs) > 1 THEN sortByTimestamp(pOurs) ELSE pOurs)
         \o sortByTimestamp(pOthers)

(***************************************************************************)
(* Answering peers' sync interests                                         *)
(***************************************************************************)
\* sendSyncData that forgets the nonce of the current request
sendSyncDataReset(e, name, pubs) ==
  [e EXCEPT !.out = Append(@, [op |-> "put", nonce |-> 0, name |-> name,
                               lifetime |-> 0, content |-> pubs]),
            !.m_currentInterest = 0]

\* SyncPubsub::sendSyncData
sendSyncData(e, name, pubs) ==
  [e EXCEPT !.out = Append(@, [op |-> "put", nonce |-> 0, name |-> name,
                               lifetime |-> 0, content |-> pubs])]

\* the size of the encoded publication
wireSize(pub) == Len(wireEncode(pub))

RECURSIVE blockSize(_)
\* Block::size of the block of publications
blockSize(pubs) ==
  IF pubs = <<>> THEN 0 ELSE wireSize(pubs[1].pub) + blockSize(Tail(pubs))

RECURSIVE packAll(_, _, _)
\* packPubs that never finds the block full
packAll(list, i, pubs) ==
  IF i > Len(list) THEN pubs
  ELSE packAll(list, i + 1, Append(pubs, [type |-> tlvData, pub |-> list[i].pub]))

RECURSIVE packPubs(_, _, _)
\* the loop of handleInterest that fills the block: stop once it is full
packPubs(list, i, pubs) ==
  IF i > Len(list) THEN pubs
  ELSE IF blockSize(Append(pubs, [type |-> tlvData, pub |-> list[i].pub])) >= maxPubSize
  THEN Append(pubs, [type |-> tlvData, pub |-> list[i].pub])
  ELSE packPubs(list, i + 1, Append(pubs, [type |-> tlvData, pub |-> list[i].pub]))

\* isLive that does not look at the live bit
isLiveAlways(e, hash) ==
  /\ hash \in DOMAIN e.m_hash2pub
  /\ e.m_hash2pub[hash] \in DOMAIN e.m_active

\* (p->second & 1U) != 0 for the handle of 'hash', if the store has one
isLive(e, hash) ==
  /\ hash \in DOMAIN e.m_hash2pub
  /\ e.m_hash2pub[hash] \in DOMAIN e.m_active
  /\ (e.m_active[e.m_hash2pub[hash]] % 2) # 0

\* (p->second & 2U) != 0
isOurs(e, hash) == (e.m_active[e.m_hash2pub[hash]] \div 2) % 2 # 0

RECURSIVE classify(_, _, _, _)
\* the loop of handleInterest over 'have': the live publications of the
\* store among them, as <<pOurs, pOthers>>
classify(e, have, pOurs, pOthers) ==
  IF have = <<>> THEN <<pOurs, pOthers>>
  ELSE classify(e, Tail(have),
                IF isLive(e, have[1]) /\ isOurs(e, have[1])
                THEN Append(pOurs, e.m_hash2pub[have[1]]) ELSE pOurs,
                IF isLive(e, have[1]) /\ ~isOurs(e, have[1])
                THEN Append(pOthers, e.m_hash2pub[have[1]]) ELSE pOthers)

\* the end of handleInterest, pOurs being what m_filterPubs returned
answer(e, name, pOurs) ==
  IF pOurs = <<>> THEN [handled |-> FALSE, e |-> e]
  ELSE [handled |-> TRUE, e |-> sendSyncData(e, name, packPubs(pOurs, 1, <<>>))]

\* m_filterPubs(pOurs, pOthers) on the two lists
filtered(lists) == filterPubs(lists[1], lists[2])

\* handleDecoded that reports an undecodable name as not handled
handleDecodedRetry(e, name, init) ==
  IF ~init.ok THEN [handled |-> FALSE, e |-> e]
  ELSE answer(e, name,
              filtered(classify(e,
                WordsAscending(listEntries(Subtract(e.m_iblt, init.iblt)).positive),
                <<>>, <<>>)))

\* handleInterest once the peer's IBLT is read from the name
handleDecoded(e, name, init) ==
  IF ~init.ok THEN [handled |-> TRUE, e |-> e]
  ELSE answer(e, name,
              filtered(classify(e,
                WordsAscending(listEntries(Subtract(e.m_iblt, init.iblt)).positive),
                <<>>, <<>>)))

\* SyncPubsub::handleInterest: handled is the value returned, e the engine
\* afterwards (only its calls on the face can differ)
handleInterest(e, name) ==
  handleDecoded(e, name, initialize(NewIBLT(e.m_expectedNumEntries), name[Len(name)]))

RECURSIVE sweep(_, _, _)
\* an entry of m_interests that has not expired, r being what
\* handleInterest(name) returned
sweepHandled(e, name, names, now, r) ==
  IF r.handled
  THEN sweep([r.e EXCEPT !.m_interests = Without(@, name)], names \ {name}, now)
  ELSE sweep(e, names \ {name}, now)

\* a turn of the loop that asks handleInterest whatever the deadline
sweepNameAll(e, name, names, now) ==
  sweepHandled(e, name, names, now, handleInterest(e, name))

\* one turn of the loop of handleInterests
sweepName(e, name, names, now) ==
  IF e.m_interests[name] <= now
  THEN sweep([e EXCEPT !.m_interests = Without(@, name)], names \ {name}, now)
  ELSE sweepHandled(e, name, names, now, handleInterest(e, name))

\* the loop of handleInterests over the entries 'names' of m_interests
sweep(e, names, now) ==
  IF names = {} THEN e
  ELSE sweepName(e, CHOOSE nm \in names : TRUE, names, now)

\* SyncPubsub::handleInterests
handleInterests(e, t) == sweep(e, DOMAIN e.m_interests, clockOf(e, t))

\* remember that records nothing
forget(e, t, name, r) == r.e

\* the end of onSyncInterest, r being what handleInterest(name) returned
remember(e, t, name, r) ==
  IF ~r.handled
  THEN [e EXCEPT !.m_interests =
          With(@, name, clockOf(e, t) + e.m_syncInterestLifetime)]
  ELSE r.e

\* onSyncInterest without the test of the nonce
onSyncInterestLooped(e, t, interest) ==
  IF Len(interest.name) # 1 THEN e
  ELSE remember(e, t, interest.name, handleInterest(e, interest.name))

\* onSyncInterest that takes any name with a component after the prefix
onSyncInterestAnyName(e, t, interest) ==
  IF interest.nonce = e.m_currentInterest THEN e
  ELSE IF Len(interest.name) < 1 THEN e
  ELSE remember(e, t, interest.name, handleInterest(e, interest.name))

\* SyncPubsub::onSyncInterest; prefixName is taken away from the name, so
\* 'name' holds the components after it
onSyncInterest(e, t, interest) ==
  IF interest.nonce = e.m_currentInterest THEN e
  ELSE IF Len(interest.name) # 1 THEN e
  ELSE remember(e, t, interest.name, handleInterest(e, interest.name))

(***************************************************************************)
(* Publishing and receiving                                                *)
(***************************************************************************)
\* published that does not look at m_delivering
publishedNow(e, t) == handleInterests(sendSyncInterest(e, t), t)

\* published that leaves m_interests alone
publishedUnswept(e, t) == IF ~e.m_delivering THEN sendSyncInterest(e, t) ELSE e

\* the end of publish, after addToActive
published(e, t) ==
  IF ~e.m_delivering THEN handleInterests(sendSyncInterest(e, t), t) ELSE e

\* SyncPubsub::publish
publish(e, t, pub) ==
  IF isKnown(e, pub) THEN e
  ELSE published(addToActive([e EXCEPT !.m_publications = @ + 1], t, pub, TRUE), t)

\* subscribeTo that keeps the callback a topic already has
subscribeKeepFirst(e, topic, cb) ==
  IF topic \in DOMAIN e.m_subscription THEN e
  ELSE [e EXCEPT !.m_subscription = With(@, topic, cb)]

\* SyncPubsub::subscribeTo: m_subscription[topic] = cb
subscribeTo(e, topic, cb) == [e EXCEPT !.m_subscription = With(@, topic, cb)]

\* SyncPubsub::unsubscribe: m_subscription.erase(topic)
unsubscribe(e, topic) == [e EXCEPT !.m_subscription = Without(@, topic)]

\* m_subscription.lower_bound(nm): the first topic not less than nm, or
\* <<FALSE, _>> for end()
lowerBound(subs, nm) ==
  LET notLess == {k \in DOMAIN subs : ~NameLess(k, nm)}
  IN  IF notLess = {} THEN <<FALSE, <<>>>>
      ELSE <<TRUE, CHOOSE k \in notLess : \A j \in notLess \ {k} : NameLess(k, j)>>

\* --sub: the last topic less than nm, or <<FALSE, _>> when sub is begin()
previous(subs, nm) ==
  LET before == {k \in DOMAIN subs : NameLess(k, nm)}
  IN  IF before = {} THEN <<FALSE, <<>>>>
      ELSE <<TRUE, CHOOSE k \in before : \A j \in before \ {k} : NameLess(j, k)>>

\* the condition of the if in onValidData, sub and prev being the entry at
\* lower_bound and the one before it
chosen(sub, prev, nm) ==
  IF sub[1] /\ isPrefixOf(sub[2], nm) THEN sub
  ELSE IF prev[1] /\ isPrefixOf(prev[2], nm) THEN prev
  ELSE <<FALSE, <<>>>>

\* the topic whose callback onValidData invokes for a publication named nm:
\* the entry at lower_bound if it is a prefix of nm, else the entry before
\* it if that is one; <<FALSE, _>> when neither
subscriptionFor(subs, nm) == chosen(lowerBound(subs, nm), previous(subs, nm), nm)

\* the publication the callback "reply" publishes
replyPub(e, t) ==
  [name |-> <<Comp(e.id), Comp(200 + e.id), TimestampComp(clockOf(e, t))>>,
   content |-> 0]

\* what the application's callback cb does with the engine: "reply" calls
\* publish, the others only take note of the publication
callback(e, t, cb) == IF cb = "reply" THEN publish(e, t, replyPub(e, t)) ELSE e

\* sub->second(*p): the callback is invoked with the stored publication
invokeCallback(e, t, topic, p) ==
  callback([e EXCEPT !.delivered = Append(@, [topic |-> topic,
                                               cb |-> e.m_subscription[topic],
                                               pub |-> p.pub])],
           t, e.m_subscription[topic])

\* the if of onValidData that delivers the stored publication p
dispatch(e, t, sub, p) == IF sub[1] THEN invokeCallback(e, t, sub[2], p) ELSE e

\* the body of the loop of onValidData from addToActive on, e being the
\* engine after addToActive
dispatchNew(e, t, pub) ==
  dispatch(e, t, subscriptionFor(e.m_subscription, pub.name),
           e.m_hash2pub[hashPub(pub)])

\* the body of the loop of onValidData for the element el
deliverElement(e, t, el) ==
  IF el.type # tlvData THEN e
  ELSE IF isExpired(el.pub, clockOf(e, t)) \/ isKnown(e, el.pub) THEN e
  ELSE dispatchNew(addToActive(e, t, el.pub, FALSE), t, el.pub)

RECURSIVE deliver(_, _, _, _)
\* the loop of onValidData over the elements i, i+1, ... of the block
deliver(e, t, elements, i) ==
  IF i > Len(elements) THEN e
  ELSE deliver(deliverElement(e, t, elements[i]), t, elements, i + 1)

\* satisfyPending that never sweeps
satisfyNever(e, t, initpubs) == e

\* the last if of onValidData
satisfyPending(e, t, initpubs) ==
  IF initpubs # e.m_publications THEN handleInterests(e, t) ELSE e

\* afterDelivery that sends a sync interest whatever the nonce
afterDeliveryAlways(e, t, interest, initpubs) ==
  satisfyPending(sendSyncInterest([e EXCEPT !.m_delivering = FALSE], t), t, initpubs)

\* onValidData after the loop: m_delivering = false and the two ifs
afterDelivery(e, t, interest, initpubs) ==
  satisfyPending(IF interest.nonce = e.m_currentInterest
                 THEN sendSyncInterest([e EXCEPT !.m_delivering = FALSE], t)
                 ELSE [e EXCEPT !.m_delivering = FALSE],
                 t, initpubs)

\* onValidData from m_delivering = true to the end of its loop
delivering(e, t, data) ==
  deliver([e EXCEPT !.m_delivering = TRUE], t, data.content, 1)

\* SyncPubsub::onValidData
onValidData(e, t, interest, data) ==
  IF data.type # syncpsContent THEN e
  ELSE afterDelivery(delivering(e, t, data), t, interest, e.m_publications)

\* the callback of a scheduler event
timerCb(e, t, tm) ==
  CASE tm.kind = "expire" -> expireCb(e, tm.h)
    [] tm.kind = "erase" -> eraseCb(e, t, tm.hash)
    [] tm.kind = "remove" -> removeFromActive(e, tm.h)
    [] OTHER -> sendSyncInterest(e, t)

(***************************************************************************)
(* The system: the engines of the scenario, the true time, each face's     *)
(* pending interests, and the packets under way.                           *)
(***************************************************************************)
VARIABLES
  eng,      \* the engines, by node
  now,      \* the true time, ms
  pit,      \* by node: the sync interests its face has expressed and that are
            \* neither satisfied nor timed out
  net,      \* packets under way: interests to the peers, data to the requesters
  budget,   \* by node and topic: the publish calls the application still makes
  bench     \* an IBLT on its own, with the calls made on it

vars == <<eng, now, pit, net, budget, bench>>

\* the earliest event of the engine's scheduler; ties fire in scheduling order
firstTimer(e) ==
  CHOOSE tm \in e.timers :
    \A o \in e.timers \ {tm} : tm.at < o.at \/ (tm.at = o.at /\ tm.seq < o.seq)

timerDue(e) == \E tm \in e.timers : tm.at <= now
noTimerDue == \A n \in DOMAIN eng : ~timerDue(eng[n])

\* Face::expressInterest: the interest c is pending at the face of node n and
\* goes to every peer whose prefix is registered
expressed(n, c, st) ==
  [pit |-> [st.pit EXCEPT ![n] = @ \cup {[nonce |-> c.nonce, name |-> c.name,
                                          expiry |-> now + c.lifetime]}],
   net |-> st.net \cup
     {[kind |-> "I", to |-> m, nonce |-> c.nonce, name |-> c.name,
       expiry |-> now + c.lifetime, type |-> 0, content |-> <<>>]
        : m \in {m \in (DOMAIN eng) \ {n} : ~eng[m].m_registering}}]

\* Face::put: the Data c goes to every peer with a pending interest of its name
put(n, c, st) ==
  [pit |-> st.pit,
   net |-> st.net \cup
     {[kind |-> "D", to |-> m, nonce |-> 0, name |-> c.name,
       expiry |-> 0, type |-> syncpsContent, content |-> c.content]
        : m \in {m \in (DOMAIN eng) \ {n} : \E i \in st.pit[m] : i.name = c.name}}]

RECURSIVE transmit(_, _, _)
\* the calls the handler made on the face of node n, in order
transmit(n, calls, st) ==
  IF calls = <<>> THEN st
  ELSE transmit(n, Tail(calls),
                IF calls[1].op = "express" THEN expressed(n, calls[1], st)
                                           ELSE put(n, calls[1], st))

\* the events of the scheduler keep their order; their ids are renumbered
\* from 1, and the id of an event that is gone becomes 0
settled(e) ==
  [e EXCEPT !.timers = {[tm EXCEPT !.seq = Cardinality({o \in e.timers : o.seq <= tm.seq})]
                          : tm \in e.timers},
            !.nextSeq = Cardinality(e.timers) + 1,
            !.m_scheduledSyncInterestId =
               Cardinality({o \in e.timers : o.seq <= e.m_scheduledSyncInterestId
                              /\ \E tm \in e.timers : tm.seq = e.m_scheduledSyncInterestId}),
            !.out = <<>>]

\* pit and net after the calls of the handler
sent(st) == pit' = st.pit /\ net' = st.net

\* the step of node n whose handler left the engine as e1
Ran(n, e1, pit0, net0) ==
  /\ eng' = [eng EXCEPT ![n] = settled(e1)]
  /\ sent(transmit(n, e1.out, [pit |-> pit0, net |-> net0]))

\* the callback of setInterestFilter for a registration that succeeded
onRegisterSuccess(e, t) == sendSyncInterest([e EXCEPT !.m_registering = FALSE], t)

\* the registration of the prefix succeeds
RegisterSuccess(n) ==
  /\ noTimerDue
  /\ eng[n].m_registering
  /\ Ran(n, onRegisterSuccess(eng[n], now), pit, net)
  /\ UNCHANGED <<now, budget, bench>>

\* the publication the application of node n builds for 'topic': its id and
\* the time of its clock appended
newPub(n, topic) ==
  [name |-> topic \o <<Comp(100 + n), TimestampComp(clockOf(eng[n], now))>>,
   content |-> 0]

\* the application publishes to 'topic'
Publish(n, topic) ==
  /\ noTimerDue
  /\ now <= PublishBy
  /\ budget[n][topic] > 0
  /\ budget' = [budget EXCEPT ![n][topic] = @ - 1]
  /\ Ran(n, publish(eng[n], now, newPub(n, topic)), pit, net)
  /\ UNCHANGED <<now, bench>>

\* a peer's sync interest arrives
DeliverInterest(msg) ==
  /\ noTimerDue
  /\ msg.kind = "I"
  /\ Ran(msg.to, onSyncInterest(eng[msg.to], now, msg), pit, net \ {msg})
  /\ UNCHANGED <<now, budget, bench>>

RECURSIVE onData(_, _, _)
\* the face hands the Data to the data callback of every pending interest
\* it satisfies; the validator accepts it
onData(e, pending, data) ==
  IF pending = {} THEN e
  ELSE onData(onValidData(e, now,
                          CHOOSE j \in pending : \A k \in pending : j.nonce <= k.nonce,
                          data),
              pending \ {CHOOSE j \in pending : \A k \in pending : j.nonce <= k.nonce},
              data)

\* a Data arrives at the face of the node that asked
DeliverData(msg) ==
  /\ noTimerDue
  /\ msg.kind = "D"
  /\ Ran(msg.to, onData(eng[msg.to], {i \in pit[msg.to] : i.name = msg.name}, msg),
         [pit EXCEPT ![msg.to] = {i \in @ : i.name # msg.name}], net \ {msg})
  /\ UNCHANGED <<now, budget, bench>>

\* the scheduler runs the event tm of node n
fired(n, tm) ==
  Ran(n, timerCb([eng[n] EXCEPT !.timers = @ \ {tm}], now, tm), pit, net)

\* the scheduler of node n runs its earliest event, which is due; of the
\* schedulers with an event due, the one of the lowest node runs first (the
\* callbacks of different nodes commute)
FireTimer(n) ==
  /\ timerDue(eng[n])
  /\ \A m \in DOMAIN eng : m < n => ~timerDue(eng[m])
  /\ fired(n, firstTimer(eng[n]))
  /\ UNCHANGED <<now, budget, bench>>

\* the times of the events scheduled
deadlines == {tm.at : tm \in UNION {eng[n].timers : n \in DOMAIN eng}}

\* the time after 'now' the model looks at next: the next event of a
\* scheduler, or TimeStep later when none is nearer
nextTime ==
  IF \E d \in deadlines : d <= now + TimeStep
  THEN CHOOSE d \in deadlines : \A o \in deadlines : d <= o
  ELSE now + TimeStep

\* the clock reaches 'next': the interests whose lifetime is over leave the
\* faces and the network
elapsed(next) ==
  /\ now' = next
  /\ pit' = [n \in DOMAIN pit |-> {i \in pit[n] : i.expiry > next}]
  /\ net' = {m \in net : m.kind = "D" \/ m.expiry > next}

\* the clock reaches 'next', within the time the model looks at
passTo(next) ==
  /\ next <= MaxTime
  /\ elapsed(next)

\* time passes
Advance ==
  /\ noTimerDue
  /\ Cardinality(net) <= MaxHeld
  /\ passTo(nextTime)
  /\ UNCHANGED <<eng, budget, bench>>

Next ==
  \/ \E n \in DOMAIN eng : RegisterSuccess(n)
  \/ \E n \in DOMAIN eng : \E topic \in DOMAIN budget[n] : Publish(n, topic)
  \/ \E msg \in net : DeliverInterest(msg)
  \/ \E msg \in net : DeliverData(msg)
  \/ \E n \in DOMAIN eng : FireTimer(n)
  \/ Advance

NoBench == [op |-> "none"]

\* two engines: A (1), whose clock is ahead, publishes to /1; B (2)
\* subscribes to /1 and publishes to /2
Init ==
  /\ eng = (1 :> NewEngine(1, ClockAhead, <<>>)) @@
           (2 :> NewEngine(2, 0, (<<Comp(1)>> :> "log")))
  /\ now = 0
  /\ pit = [n \in {1, 2} |-> {}]
  /\ net = {}
  /\ budget = (1 :> (<<Comp(1)>> :> MaxPublish)) @@ (2 :> (<<Comp(2)>> :> PeerPublish))
  /\ bench = NoBench

Spec == Init /\ [][Next]_vars

(***************************************************************************)
(* Prompt transport: both engines registered before the application        *)
(* publishes, and every packet delivered before the clock moves.           *)
(***************************************************************************)
\* the application publishes once every engine is registered
PublishRegistered(n, topic) ==
  /\ \A m \in DOMAIN eng : ~eng[m].m_registering
  /\ Publish(n, topic)

\* time passes once the network has delivered everything
AdvanceQuiet ==
  /\ net = {}
  /\ noTimerDue
  /\ passTo(nextTime)
  /\ UNCHANGED <<eng, budget, bench>>

NextPrompt ==
  \/ \E n \in DOMAIN eng : RegisterSuccess(n)
  \/ \E n \in DOMAIN eng : \E topic \in DOMAIN budget[n] : PublishRegistered(n, topic)
  \/ \E msg \in net : DeliverInterest(msg)
  \/ \E msg \in net : DeliverData(msg)
  \/ \E n \in DOMAIN eng : FireTimer(n)
  \/ AdvanceQuiet

\* A (1), its clock right or ahead, publishes once to /1; B (2) has no
\* subscription and publishes nothing
InitPrompt ==
  /\ \E skew \in {0, ClockAhead} :
       eng = (1 :> NewEngine(1, skew, <<>>)) @@ (2 :> NewEngine(2, 0, <<>>))
  /\ now = 0
  /\ pit = [n \in {1, 2} |-> {}]
  /\ net = {}
  /\ budget = (1 :> (<<Comp(1)>> :> 1)) @@ (2 :> <<>>)
  /\ bench = NoBench

SpecPrompt == InitPrompt /\ [][NextPrompt]_vars

(***************************************************************************)
(* Dispatch: one registered engine with a subscription table, and a Data   *)
(* with one publication on its way to it.                                  *)
(***************************************************************************)
\* the topics the tables are drawn from
Topics ==
  {<<Comp(1)>>, <<Comp(1), Comp(2)>>, <<Comp(1), Comp(2), Comp(3)>>,
   <<Comp(1), Comp(3)>>}
\* the topics the publication is drawn from
PubTopics ==
  {<<Comp(1)>>, <<Comp(1), Comp(2)>>, <<Comp(1), Comp(2), Comp(3)>>,
   <<Comp(1), Comp(2), Comp(4)>>, <<Comp(1), Comp(3)>>, <<Comp(2)>>}

\* the face's pending interests after the calls 'calls' at time 0
pendingOf(calls) ==
  {[nonce |-> calls[i].nonce, name |-> calls[i].name, expiry |-> calls[i].lifetime]
     : i \in DOMAIN calls}

\* a Data for the interest named 'name', carrying pub
dataFor(n, name, pub) ==
  [kind |-> "D", to |-> n, nonce |-> 0, name |-> name, expiry |-> 0,
   type |-> syncpsContent, content |-> <<[type |-> tlvData, pub |-> pub]>>]

\* engine 2, registered, subscribed to the topics of 'subs'
subscriber(subs) ==
  onRegisterSuccess(NewEngine(2, 0, [topic \in subs |-> "log"]), 0)

InitDispatch ==
  \E subs \in SUBSET Topics : \E topic \in PubTopics :
    /\ eng = (2 :> settled(subscriber(subs)))
    /\ now = 0
    /\ pit = (2 :> pendingOf(subscriber(subs).out))
    /\ net = {dataFor(2, <<appendToName(NewIBLT(ExpectedNumEntries))>>,
                      [name |-> topic \o <<Comp(101), TimestampComp(0)>>,
                       content |-> 0])}
    /\ budget = (2 :> <<>>)
    /\ bench = NoBench

NextDispatch == \E msg \in net : DeliverData(msg)

SpecDispatch == InitDispatch /\ [][NextDispatch]_vars

(***************************************************************************)
(* An IBLT on its own: insert, erase and the difference with a peer's      *)
(* table, called in any order.                                             *)
(***************************************************************************)
\* the keys of the calls
Keys == {WordOf(1), WordOf(2), WordOf(3)}

\* the calls so far are inserts, and erases of the key just inserted
benchAfter(op, t, key, plain) ==
  [op |-> op, iblt |-> t, before |-> bench.iblt, key |-> key, n |-> bench.n + 1,
   plain |-> plain]

TableInsert(key) ==
  /\ bench.n < MaxOps
  /\ bench' = benchAfter("insert", insert(bench.iblt, key), key, bench.plain)
  /\ UNCHANGED <<eng, now, pit, net, budget>>

\* erase(key); op is "undo" when it follows insert(key), and 'before' stays
\* the table before that insert
TableErase(key) ==
  /\ bench.n < MaxOps
  /\ bench' = IF bench.op = "insert" /\ bench.key = key
              THEN [benchAfter("undo", erase(bench.iblt, key), key, bench.plain)
                      EXCEPT !.before = bench.before]
              ELSE benchAfter("erase", erase(bench.iblt, key), key, FALSE)
  /\ UNCHANGED <<eng, now, pit, net, budget>>

\* the table becomes its difference with a peer's table that holds key
TableSubtract(key) ==
  /\ bench.n < MaxOps
  /\ bench' = benchAfter("subtract",
                         Subtract(bench.iblt, insert(NewIBLT(ExpectedNumEntries), key)),
                         key, FALSE)
  /\ UNCHANGED <<eng, now, pit, net, budget>>

NextTable ==
  \/ \E key \in Keys : TableInsert(key)
  \/ \E key \in Keys : TableErase(key)
  \/ \E key \in Keys : TableSubtract(key)

InitTable ==
  /\ eng = <<>>
  /\ now = 0
  /\ pit = <<>>
  /\ net = {}
  /\ budget = <<>>
  /\ bench = [op |-> "new", iblt |-> NewIBLT(ExpectedNumEntries),
              before |-> NewIBLT(ExpectedNumEntries), key |-> W0, n |-> 0,
              plain |-> TRUE]

SpecTable == InitTable /\ [][NextTable]_vars

(***************************************************************************)
(* Properties                                                              *)
(***************************************************************************)
\* the digests whose erase event is still to come
held(e) == {tm.hash : tm \in {x \in e.timers : x.kind = "erase"}}

RECURSIVE onceEach(_, _)
\* the table t with every key of S inserted once
onceEach(t, S) ==
  IF S = {} THEN t
  ELSE onceEach(insert(t, CHOOSE k \in S : TRUE), S \ {CHOOSE k \in S : TRUE})

\* the member IBLT holds one insertion of each digest of held(e) and
\* nothing else
holdsOnce(e) == e.m_iblt = onceEach(NewIBLT(e.m_expectedNumEntries), held(e))

\* the live bit of the handle p
liveBit(e, p) == p \in DOMAIN e.m_active /\ (e.m_active[p] % 2) = 1

\* the handle addToActive made for the admission rec
handleOf(rec) == [id |-> rec.t0, pub |-> rec.pub]

\* C1: in every reachable state, for each handle of the store whose live bit
\* is set, the member IBLT holds exactly one net insertion of the handle's
\* digest: the digest is among those inserted and not erased, and the table
\* is the one with each of those inserted once.
C1_LiveInsertedOnce ==
  \A n \in DOMAIN eng : \A p \in DOMAIN eng[n].m_active :
    liveBit(eng[n], p) =>
      hashPub(p.pub) \in held(eng[n]) /\ holdsOnce(eng[n])

\* C1, its case: an engine with two digests in its IBLT, one of a live handle
C1_Witness ==
  \E n \in DOMAIN eng :
    /\ Cardinality(held(eng[n])) >= 2
    /\ \E p \in DOMAIN eng[n].m_active : liveBit(eng[n], p)

\* C2: a publication accepted by publish at t0 is known exactly during
\* [t0, t0 + 2*maxPubLifetime), live exactly during [t0, t0 + maxPubLifetime)
\* and in the member IBLT exactly during
\* [t0, t0 + maxPubLifetime + maxClockSkew) (read once the events due have
\* run).
C2_PublishWindows ==
  noTimerDue =>
    \A n \in DOMAIN eng : \A rec \in eng[n].admitted :
      rec.local =>
        /\ isKnownHash(eng[n], rec.hash) <=> now < rec.t0 + 2 * maxPubLifetime
        /\ isLive(eng[n], rec.hash) <=> now < rec.t0 + maxPubLifetime
        /\ rec.hash \in held(eng[n]) <=> now < rec.t0 + maxPubLifetime + maxClockSkew
        /\ holdsOnce(eng[n])

\* C2, its case: just after t0 + 2000 ms a published publication is neither
\* known nor in the IBLT
C2_Witness ==
  /\ noTimerDue
  /\ \E n \in DOMAIN eng : \E rec \in eng[n].admitted :
       /\ rec.local
       /\ now >= rec.t0 + 2 * maxPubLifetime
       /\ ~isKnownHash(eng[n], rec.hash)
       /\ rec.hash \notin held(eng[n])

\* C3 as stated: the handle leaves the store one further maxPubLifetime
\* after its IBLT membership ends, that is at
\* t0 + maxPubLifetime + maxClockSkew + maxPubLifetime.
C3_RemovedALifetimeAfterErase ==
  noTimerDue =>
    \A n \in DOMAIN eng : \A rec \in eng[n].admitted :
      handleOf(rec) \in DOMAIN eng[n].m_active
        <=> now < rec.t0 + maxPubLifetime + maxClockSkew + maxPubLifetime

\* C3, amended: after admission (local or remote) at t0 the handle is live
\* during [t0, t0 + maxPubLifetime), its digest is in the IBLT during
\* [t0, t0 + maxPubLifetime + maxClockSkew), and the handle is in the store
\* during [t0, t0 + 2*maxPubLifetime): it leaves the store 2*maxPubLifetime
\* after admission, not a lifetime after its IBLT membership ends.
C3_Lifecycle ==
  noTimerDue =>
    \A n \in DOMAIN eng : \A rec \in eng[n].admitted :
      /\ liveBit(eng[n], handleOf(rec)) <=> now < rec.t0 + maxPubLifetime
      /\ (\E tm \in eng[n].timers : tm.kind = "erase" /\ tm.h = handleOf(rec))
           <=> now < rec.t0 + maxPubLifetime + maxClockSkew
      /\ handleOf(rec) \in DOMAIN eng[n].m_active
           <=> now < rec.t0 + 2 * maxPubLifetime
      /\ holdsOnce(eng[n])

\* C3, its case: a publication admitted from a peer has run through its
\* lifecycle and left the store
C3_Witness ==
  /\ noTimerDue
  /\ \E n \in DOMAIN eng : \E rec \in eng[n].admitted :
       /\ ~rec.local
       /\ now >= rec.t0 + 2 * maxPubLifetime
       /\ handleOf(rec) \notin DOMAIN eng[n].m_active

C5_DeliveredOnce ==
  \A n \in DOMAIN eng :
    \A i \in DOMAIN eng[n].delivered : \A j \in DOMAIN eng[n].delivered :
      i # j => eng[n].delivered[i].pub # eng[n].delivered[j].pub

\* C6: with both engines registered and a transport that delivers every
\* packet at once, a publication A published at t0 is in B's store before
\* its lifetime at A has run out.
C6_AdmittedInTime ==
  \A rec \in eng[1].admitted :
    (rec.local /\ now >= rec.t0 + maxPubLifetime) =>
      \E got \in eng[2].admitted : got.hash = rec.hash

\* the subscribed topics that are a prefix of the name nm
prefixesOf(e, nm) == {k \in DOMAIN e.m_subscription : isPrefixOf(k, nm)}

\* C7: for every subscription table and every newly admitted remote
\* publication, the callback of the longest subscribed prefix of its name
\* is invoked, and none is invoked only when no subscribed topic is a
\* prefix of the name.
C7_LongestPrefix ==
  \A n \in DOMAIN eng : \A rec \in eng[n].admitted :
    ~rec.local =>
      IF prefixesOf(eng[n], rec.pub.name) = {}
      THEN \A i \in DOMAIN eng[n].delivered : eng[n].delivered[i].pub # rec.pub
      ELSE \E i \in DOMAIN eng[n].delivered :
             /\ eng[n].delivered[i].pub = rec.pub
             /\ \A k \in prefixesOf(eng[n], rec.pub.name) :
                  Len(k) <= Len(eng[n].delivered[i].topic)

\* the publish calls node n has made
spent(n) ==
  IF n = 1 THEN MaxPublish - budget[1][<<Comp(1)>>]
           ELSE PeerPublish - budget[2][<<Comp(2)>>]

\* C8: publish of a publication whose wire encoding (so its digest) is the
\* one of a known publication changes nothing in the engine (store, side
\* table, IBLT, publications count, pending interests, scheduler) and puts
\* no sync request on the face.
C8_RepublishChangesNothing ==
  [][\A n \in DOMAIN eng : \A topic \in DOMAIN budget[n] :
       (/\ budget'[n][topic] < budget[n][topic]
        /\ isKnownHash(eng[n], hashPub(newPub(n, topic))))
         => (eng'[n] = eng[n] /\ pit' = pit /\ net' = net)]_vars

\* C8, its case: an engine whose application has published more often than
\* the engine counted publications
C8_Witness == \E n \in DOMAIN eng : spent(n) > eng[n].m_publications

\* the IBLT in the interest name is the member IBLT of e
sameTable(e, name) ==
  /\ initialize(NewIBLT(e.m_expectedNumEntries), name[Len(name)]).ok
  /\ EqualIBLT(initialize(NewIBLT(e.m_expectedNumEntries), name[Len(name)]).iblt,
               e.m_iblt)

\* C9: a peer's sync request whose IBLT equals the member IBLT is not
\* answered: handleInterest returns false, no Data is put, and onSyncInterest
\* records the name in m_interests with the deadline now + syncInterestLifetime.
C9_EqualNotAnswered ==
  [][\A msg \in net :
       (/\ msg.kind = "I"
        /\ msg \notin net'
        /\ now' = now
        /\ msg.nonce # eng[msg.to].m_currentInterest
        /\ sameTable(eng[msg.to], msg.name))
         => (/\ ~handleInterest(eng[msg.to], msg.name).handled
             /\ net' = net \ {msg}
             /\ pit' = pit
             /\ \A n \in DOMAIN eng :
                  eng'[n] =
                    IF n = msg.to
                    THEN [eng[n] EXCEPT !.m_interests =
                            With(@, msg.name,
                                 clockOf(eng[n], now) + eng[n].m_syncInterestLifetime)]
                    ELSE eng[n])]_vars

\* C9, its case: a request with the engine's own IBLT recorded just now
C9_Witness ==
  \E n \in DOMAIN eng : \E name \in DOMAIN eng[n].m_interests :
    /\ sameTable(eng[n], name)
    /\ eng[n].m_interests[name] = clockOf(eng[n], now) + eng[n].m_syncInterestLifetime
    /\ eng[n].m_hash2pub # <<>>

\* C10 as stated: for every IBLT state and every key, insert(key) followed
\* by erase(key) leaves every cell as it was before the insert.
C10_InsertEraseRestores ==
  bench.op = "undo" => bench.iblt = bench.before

\* C10, amended: for an IBLT that holds inserted keys only (built from the
\* empty table by insert calls and erases that undo them) and every key,
\* insert(key) followed by erase(key) leaves every cell as it was; on
\* other tables (a difference of two IBLTs, say) erase can refuse.
C10_InsertEraseRestoresPlain ==
  (bench.op = "undo" /\ bench.plain) => bench.iblt = bench.before

\* C10, its case: insert then erase on a table that held other keys
C10_Witness ==
  /\ bench.op = "undo"
  /\ bench.plain
  /\ bench.before # NewIBLT(ExpectedNumEntries)
  /\ bench.iblt = bench.before

(***************************************************************************)
(* Two IBLTs A and B filled from key sets, the peel of their difference,   *)
(* and the trip of a table through a name component.                       *)
(***************************************************************************)
\* the keys of the two tables; with six cells 3 and 4 share all three cells
\* and 1 and 2 share two
PeelKeys == {WordOf(1), WordOf(2), WordOf(3), WordOf(4)}

\* what the inflated component is longer (or shorter) by than 12 bytes a cell
Deltas == {-4, -1, 0, 1, 4}

\* the inflated bytes of a component made d bytes longer (zero bytes
\* appended) or shorter (bytes cut off the end)
resized(comp, d) ==
  [deflated |-> IF d >= 0 THEN comp.deflated \o [i \in 1..d |-> 0]
                ELSE SubSeq(comp.deflated, 1, Len(comp.deflated) + d)]

\* the tables after a call, the key sets being what they hold
peelAfter(op, ma, mb, a, b) == [op |-> op, ma |-> ma, mb |-> mb, a |-> a, b |-> b]

\* A.insert(key) or B.insert(key) of a key the table does not hold
PeelInsert(side, key) ==
  /\ key \notin (IF side = "a" THEN bench.ma ELSE bench.mb)
  /\ bench' = IF side = "a"
              THEN peelAfter("insert", bench.ma \cup {key}, bench.mb,
                             insert(bench.a, key), bench.b)
              ELSE peelAfter("insert", bench.ma, bench.mb \cup {key},
                             bench.a, insert(bench.b, key))
  /\ UNCHANGED <<eng, now, pit, net, budget>>

\* A.erase(key) of a key A holds
PeelErase(key) ==
  /\ key \in bench.ma
  /\ erase(bench.a, key) # bench.a
  /\ bench' = peelAfter("erase", bench.ma \ {key}, bench.mb,
                        erase(bench.a, key), bench.b)
  /\ UNCHANGED <<eng, now, pit, net, budget>>

\* the record of (A - B).listEntries(positive, negative)
peelListed(diff, r) ==
  [op |-> "list", ma |-> bench.ma, mb |-> bench.mb, a |-> bench.a, b |-> bench.b,
   diff |-> diff, ok |-> r.ok, positive |-> r.positive, negative |-> r.negative,
   peeled |-> r.peeled]

listedOf(diff) == peelListed(diff, listEntries(diff))

\* (A - B).listEntries(positive, negative)
PeelList ==
  /\ bench.op # "list"
  /\ bench' = listedOf(Subtract(bench.a, bench.b))
  /\ UNCHANGED <<eng, now, pit, net, budget>>

\* the record of a fresh IBLT initialized from the component of x, resized
\* by d
peelDecoded(which, d, x, r) ==
  [op |-> "decode", ma |-> bench.ma, mb |-> bench.mb, a |-> bench.a, b |-> bench.b,
   which |-> which, d |-> d, x |-> x, ok |-> r.ok, iblt |-> r.iblt]

decodedOf(which, d, x) ==
  peelDecoded(which, d, x,
              initialize(NewIBLT(ExpectedNumEntries), resized(appendToName(x), d)))

\* x.appendToName(name), then initialize on a fresh IBLT, x being A or A - B
PeelDecode(which, d) ==
  /\ bench.op # "decode"
  /\ bench' = decodedOf(which, d, IF which = "member" THEN bench.a
                                  ELSE Subtract(bench.a, bench.b))
  /\ UNCHANGED <<eng, now, pit, net, budget>>

NextPeel ==
  \/ \E side \in {"a", "b"} : \E key \in PeelKeys : PeelInsert(side, key)
  \/ \E key \in PeelKeys : PeelErase(key)
  \/ PeelList
  \/ \E which \in {"member", "difference"} : \E d \in Deltas : PeelDecode(which, d)

InitPeel ==
  /\ eng = <<>>
  /\ now = 0
  /\ pit = <<>>
  /\ net = {}
  /\ budget = <<>>
  /\ bench = peelAfter("new", {}, {}, NewIBLT(ExpectedNumEntries),
                       NewIBLT(ExpectedNumEntries))

SpecPeel == InitPeel /\ [][NextPeel]_vars

\* every cell of the table is empty
allEmpty(t) == \A i \in DOMAIN t : isEmpty(t[i])

\* C11 as stated: for A and B built from key collections whose difference
\* is within the expected number of entries, (A - B).listEntries returns
\* true with positive the keys of A not in B and negative the keys of B not
\* in A.
C11_PeelGivesDifference ==
  (bench.op = "list"
     /\ Cardinality((bench.ma \ bench.mb) \cup (bench.mb \ bench.ma)) <= ExpectedNumEntries)
    => /\ bench.ok
       /\ bench.positive = bench.ma \ bench.mb
       /\ bench.negative = bench.mb \ bench.ma

\* the keys of the difference of A and B that listEntries did not list
unlisted(b) ==
  ((b.ma \ b.mb) \cup (b.mb \ b.ma)) \ (b.positive \cup b.negative)

\* C11, amended: (A - B).listEntries returns true, every key it lists in
\* positive is a key of A not in B and every key in negative a key of B
\* not in A, and a key of the difference is left unlisted only when each of
\* its three cells is shared with another unlisted key (two keys that share
\* all three cells, say): the lists are the whole difference exactly when
\* the peel leaves every cell empty.
C11_PeelListsWhatItCan ==
  bench.op = "list" =>
    /\ bench.ok
    /\ bench.positive \subseteq bench.ma \ bench.mb
    /\ bench.negative \subseteq bench.mb \ bench.ma
    /\ \A k \in unlisted(bench) : \A i \in 0..(N_HASH - 1) :
         \E j \in unlisted(bench) \ {k} : hashN(bench.a, i, j) = hashN(bench.a, i, k)
    /\ allEmpty(bench.peeled) <=> unlisted(bench) = {}

\* C11, its case: a peel that lists keys on both sides and is complete
C11_Witness ==
  /\ bench.op = "list"
  /\ Cardinality(bench.positive) >= 2
  /\ bench.negative # {}
  /\ bench.ma \cap bench.mb # {}
  /\ allEmpty(bench.peeled)

\* C12: for any populated IBLT X (one produced by subtraction included),
\* appendToName and then initialize on a fresh IBLT of the same size gives
\* an IBLT equal to X cell for cell.
C12_RoundTrip ==
  (bench.op = "decode" /\ bench.d = 0) => (bench.ok /\ bench.iblt = bench.x)

\* C13: initialize fails for every component whose inflated length is not
\* 12 bytes a cell, lengths that are not a multiple of 4 included.
C13_WrongLengthRejected ==
  (bench.op = "decode" /\ bench.d # 0) => ~bench.ok

\* the largest expected entry count the cell count is computed for
MaxExpected == 90

\* the tables the calls of the step left
tablesOf(b) ==
  {b.a, b.b} \cup (IF b.op = "list" THEN {b.diff, b.peeled} ELSE {})
             \cup (IF b.op = "decode" THEN {b.x, b.iblt} ELSE {})

\* C18: for every expected entry count e, IBLT(e) has N cells, N being the
\* ceiling of 1.5*e rounded up to a multiple of 3 (85 gives 129), and no
\* call (insert, erase, subtract, initialize, listEntries) changes N.
C18_CellCount ==
  /\ \A e \in 1..MaxExpected :
       /\ NumCells(e) = ((((3 * e + 1) \div 2) + 2) \div 3) * 3
       /\ NumCells(e) % 3 = 0
  /\ NumCells(85) = 129
  /\ \A t \in tablesOf(bench) : TableSize(t) = NumCells(ExpectedNumEntries)

\* C18, its case: a table that went through insert, subtract, appendToName
\* and initialize
C18_Witness ==
  /\ bench.op = "decode"
  /\ bench.which = "difference"
  /\ bench.ok
  /\ bench.ma # {}
  /\ bench.mb # {}

(***************************************************************************)
(* One registered engine that has published once, whose application        *)
(* subscribes and unsubscribes, and to which a peer's Data with one        *)
(* publication, a sync interest with an empty IBLT and a sync interest     *)
(* whose component does not decode are on their way.  The engine's clock   *)
(* reads maxPubLifetime + maxClockSkew when the true time is 0.            *)
(***************************************************************************)
\* the topics and the callbacks of the calls
CallTopics == {<<Comp(1)>>, <<Comp(1), Comp(2)>>}
Callbacks == {"cb1", "cb2"}
\* the subscribeTo and unsubscribe calls the application makes
MaxCalls == 3
\* the timestamps of the peer's publication: at, and 1 ms inside, each end
\* of the window isExpired leaves open, and in its middle
Stamps ==
  {0, 1, maxPubLifetime, maxPubLifetime + 2 * maxClockSkew - 1,
   maxPubLifetime + 2 * maxClockSkew}

\* the application calls subscribeTo(topic, cb) before the Data arrives
Subscribe(n, topic, cb) ==
  /\ Len(bench.calls) < MaxCalls
  /\ \E msg \in net : msg.kind = "D"
  /\ eng' = [eng EXCEPT ![n] = subscribeTo(@, topic, cb)]
  /\ bench' = [bench EXCEPT !.calls = Append(@, [op |-> "subscribe", topic |-> topic,
                                                   cb |-> cb])]
  /\ UNCHANGED <<now, pit, net, budget>>

\* the application calls unsubscribe(topic) before the Data arrives
Unsubscribe(n, topic) ==
  /\ Len(bench.calls) < MaxCalls
  /\ \E msg \in net : msg.kind = "D"
  /\ eng' = [eng EXCEPT ![n] = unsubscribe(@, topic)]
  /\ bench' = [bench EXCEPT !.calls = Append(@, [op |-> "unsubscribe", topic |-> topic,
                                                   cb |-> ""])]
  /\ UNCHANGED <<now, pit, net, budget>>

\* a sync interest of a peer, named by the component comp
interestFor(n, nonce, comp) ==
  [kind |-> "I", to |-> n, nonce |-> nonce, name |-> <<comp>>,
   expiry |-> defaultSyncInterestLifetime, type |-> 0, content |-> <<>>]

\* the engine e, the publication pub in a Data for its latest interest, and
\* the two interests
injected(e, pub) ==
  /\ eng = (2 :> settled(e))
  /\ pit = (2 :> pendingOf(e.out))
  /\ net = {dataFor(2, e.out[Len(e.out)].name, pub),
            interestFor(2, 1001, appendToName(NewIBLT(ExpectedNumEntries))),
            interestFor(2, 1002,
                        resized(appendToName(NewIBLT(ExpectedNumEntries)), 4))}
  /\ bench = [op |-> "inject", pub |-> pub, calls |-> <<>>]

InitInject ==
  /\ now = 0
  /\ budget = (2 :> <<>>)
  /\ \E stamp \in Stamps :
       injected(publish(onRegisterSuccess(
                          NewEngine(2, maxPubLifetime + maxClockSkew, <<>>), 0),
                        0,
                        [name |-> <<Comp(2), Comp(102),
                                    TimestampComp(maxPubLifetime + maxClockSkew)>>,
                         content |-> 0]),
                [name |-> <<Comp(1), Comp(2), Comp(101), TimestampComp(stamp)>>,
                 content |-> 0])

NextInject ==
  \/ \E topic \in CallTopics : \E cb \in Callbacks : Subscribe(2, topic, cb)
  \/ \E topic \in CallTopics : Unsubscribe(2, topic)
  \/ \E msg \in net : DeliverInterest(msg)
  \/ \E msg \in net : DeliverData(msg)

SpecInject == InitInject /\ [][NextInject]_vars

\* the component of the interest name does not decode at the engine e
undecodable(e, name) ==
  ~initialize(NewIBLT(e.m_expectedNumEntries), name[Len(name)]).ok

\* C14: a sync interest whose IBLT component fails to decode gets no Data,
\* is not added to m_interests (so no later sweep tries it again) and
\* leaves the store and the member IBLT, in fact the whole engine,
\* unchanged.
C14_UndecodableDropped ==
  [][\A msg \in net :
       (/\ msg.kind = "I"
        /\ msg \notin net'
        /\ undecodable(eng[msg.to], msg.name))
         => (/\ handleInterest(eng[msg.to], msg.name).handled
             /\ onSyncInterest(eng[msg.to], now, msg).out = <<>>
             /\ eng' = eng
             /\ pit' = pit
             /\ net' = net \ {msg})]_vars

\* C14, its case: the undecodable interest has arrived at an engine that
\* holds a live publication of its own
C14_Witness ==
  /\ bench.op = "inject"
  /\ \E n \in DOMAIN eng :
       /\ eng[n].m_publications > 0
       /\ \E p \in DOMAIN eng[n].m_active : eng[n].m_active[p] = 3
       /\ \A msg \in net : msg.kind = "I" => ~undecodable(eng[n], msg.name)
       /\ \E msg \in net : msg.kind = "I"

\* the calls made on 'topic', in order
callsOn(topic) ==
  SelectSeq(bench.calls, LAMBDA c : c.topic = topic)

\* C15: the subscription table holds one callback per topic, the one of the
\* last subscribeTo when no unsubscribe followed it: a publication
\* dispatched to the topic goes to that callback only, after unsubscribe the
\* topic gets none, and the calls on one topic leave the others alone.
C15_LastSubscriptionWins ==
  bench.op = "inject" =>
    \A n \in DOMAIN eng :
      /\ \A topic \in CallTopics :
           IF callsOn(topic) # <<>>
                /\ callsOn(topic)[Len(callsOn(topic))].op = "subscribe"
           THEN /\ topic \in DOMAIN eng[n].m_subscription
                /\ eng[n].m_subscription[topic] = callsOn(topic)[Len(callsOn(topic))].cb
           ELSE topic \notin DOMAIN eng[n].m_subscription
      /\ \A i \in DOMAIN eng[n].delivered :
           /\ callsOn(eng[n].delivered[i].topic) # <<>>
           /\ eng[n].delivered[i].cb =
                callsOn(eng[n].delivered[i].topic)
                  [Len(callsOn(eng[n].delivered[i].topic))].cb
      /\ Len(eng[n].delivered) <= 1

\* C15, its case: a publication delivered to the second callback of a topic
\* subscribed twice, after the other topic was unsubscribed
C15_Witness ==
  /\ bench.op = "inject"
  /\ Len(bench.calls) = 3
  /\ \E n \in DOMAIN eng :
       /\ Len(eng[n].delivered) = 1
       /\ eng[n].delivered[1].cb = "cb2"
       /\ \E i \in 1..2 : /\ bench.calls[i].op = "subscribe"
                          /\ bench.calls[i].cb = "cb1"
                          /\ bench.calls[i].topic = eng[n].delivered[1].topic

\* the Data has arrived
dataArrived == \A msg \in net : msg.kind # "D"

\* the receiver's clock minus the timestamp of the peer's publication
ageOf(n) ==
  clockOf(eng[n], now) - bench.pub.name[Len(bench.pub.name)][2]

\* C16: a publication received in a Data whose timestamp t has
\* now - t >= maxPubLifetime + maxClockSkew or now - t <= -maxClockSkew on
\* the receiver's clock is not admitted to the store, not inserted in the
\* IBLT and not delivered; every other unknown publication is admitted.
C16_ExpiryWindow ==
  (bench.op = "inject" /\ dataArrived) =>
    \A n \in DOMAIN eng :
      IF ageOf(n) >= maxPubLifetime + maxClockSkew \/ ageOf(n) <= -maxClockSkew
      THEN /\ \A rec \in eng[n].admitted : rec.pub # bench.pub
           /\ \A p \in DOMAIN eng[n].m_active : p.pub # bench.pub
           /\ hashPub(bench.pub) \notin held(eng[n])
           /\ holdsOnce(eng[n])
           /\ eng[n].delivered = <<>>
      ELSE /\ \E rec \in eng[n].admitted : rec.pub = bench.pub /\ ~rec.local
           /\ \E p \in DOMAIN eng[n].m_active : p.pub = bench.pub
           /\ hashPub(bench.pub) \in held(eng[n])
           /\ holdsOnce(eng[n])

\* C16, its case: a publication 1 ms inside the window was admitted and
\* delivered
C16_Witness ==
  /\ bench.op = "inject"
  /\ dataArrived
  /\ \E n \in DOMAIN eng :
       /\ ageOf(n) = -maxClockSkew + 1
       /\ Len(eng[n].delivered) = 1
       /\ \E rec \in eng[n].admitted : rec.pub = bench.pub

(***************************************************************************)
(* Packing: a store of up to MaxPack live publications, ours and others',  *)
(* and the rounds in which handleInterest answers a peer that has none of  *)
(* them: each round the peer lacks what the Data before left out.          *)
(***************************************************************************)
\* the publications the store holds at most
MaxPack == 6
\* the content sizes of the publications, bytes
PackSizes == {100, 252}

\* the i-th publication of the store: timestamps neither rising nor falling
\* along the store
packPub(i, size) ==
  [name |-> <<Comp(1), Comp(100 + i), TimestampComp((i * 3) % 7)>>, content |-> size]

\* a publication enters the store, ours (publish) or another's (onValidData)
PackAdd(ours, size) ==
  /\ bench.op = "store"
  /\ Len(bench.left) < MaxPack
  /\ bench' = [bench EXCEPT !.left =
                 Append(@, [h |-> [id |-> 0, pub |-> packPub(Len(@) + 1, size)],
                            ours |-> ours])]
  /\ UNCHANGED <<eng, now, pit, net, budget>>

\* the handles of the entries of s that are ours (or are not), in order
handlesOf(s, ours) ==
  [i \in 1..Len(SelectSeq(s, LAMBDA x : x.ours = ours)) |->
     SelectSeq(s, LAMBDA x : x.ours = ours)[i].h]

\* the round's record: the list the filter gave, the block packed from it,
\* and what the peer still lacks
packRound(left, list, block) ==
  [op |-> "pack", round |-> bench.round + 1, list |-> list, sent |-> block,
   had |-> left,
   left |-> SelectSeq(left, LAMBDA x : \A k \in DOMAIN block : block[k].pub # x.h.pub)]

packList(left, list) == packRound(left, list, packPubs(list, 1, <<>>))

\* handleInterest from m_filterPubs on, for a peer that lacks bench.left
PackAnswer ==
  /\ \E i \in DOMAIN bench.left : bench.left[i].ours
  /\ bench' = packList(bench.left,
                       filterPubs(handlesOf(bench.left, TRUE),
                                  handlesOf(bench.left, FALSE)))
  /\ UNCHANGED <<eng, now, pit, net, budget>>

NextPack ==
  \/ \E ours \in BOOLEAN : \E size \in PackSizes : PackAdd(ours, size)
  \/ PackAnswer

InitPack ==
  /\ eng = <<>>
  /\ now = 0
  /\ pit = <<>>
  /\ net = {}
  /\ budget = <<>>
  /\ bench = [op |-> "store", round |-> 0, left |-> <<>>]

SpecPack == InitPack /\ [][NextPack]_vars

\* the entry of the store whose handle is h is ours
oursIn(s, h) == \E i \in DOMAIN s : s[i].h = h /\ s[i].ours

MaxWait == 4100

\* SyncPubsub::onRegisterFailed: logs and throws Error(msg); the engine is
\* left as it is
onRegisterFailed(e, msg) == [e |-> e, thrown |-> "Error"]

\* the registration of the prefix succeeds (it has not failed before)
RegisterOnce(n) ==
  /\ bench.error[n] = "none"
  /\ RegisterSuccess(n)

\* the registration of the prefix fails: what onRegisterFailed throws comes
\* out of the face's event loop
RegisterFailure(n) ==
  /\ noTimerDue
  /\ eng[n].m_registering
  /\ bench.error[n] = "none"
  /\ bench' = [bench EXCEPT !.error[n] = onRegisterFailed(eng[n], "nack").thrown]
  /\ eng' = [eng EXCEPT ![n] = onRegisterFailed(eng[n], "nack").e]
  /\ UNCHANGED <<now, pit, net, budget>>

\* time passes, up to MaxWait
Wait ==
  /\ noTimerDue
  /\ Cardinality(net) <= MaxHeld
  /\ nextTime <= MaxWait
  /\ elapsed(nextTime)
  /\ UNCHANGED <<eng, budget, bench>>

NextRegister ==
  \/ \E n \in DOMAIN eng : RegisterOnce(n)
  \/ \E n \in DOMAIN eng : RegisterFailure(n)
  \/ \E n \in DOMAIN eng : \E topic \in DOMAIN budget[n] : Publish(n, topic)
  \/ \E msg \in net : DeliverInterest(msg)
  \/ \E msg \in net : DeliverData(msg)
  \/ \E n \in DOMAIN eng : FireTimer(n)
  \/ Wait

InitRegister ==
  /\ eng = (1 :> NewEngine(1, ClockAhead, <<>>)) @@
           (2 :> NewEngine(2, 0, (<<Comp(1)>> :> "log")))
  /\ now = 0
  /\ pit = [n \in {1, 2} |-> {}]
  /\ net = {}
  /\ budget = (1 :> (<<Comp(1)>> :> 1)) @@ (2 :> (<<Comp(2)>> :> 1))
  /\ bench = [op |-> "register", error |-> [n \in {1, 2} |-> "none"]]

SpecRegister == InitRegister /\ [][NextRegister]_vars

\* the sync interests of node n in the network (its nonces are n * 1000 + k)
interestsOf(n) == {m \in net : m.kind = "I" /\ m.nonce \div 1000 = n}

\* the digests of the publications of e whose erase event, at maxPubLifetime
\* + maxClockSkew after the publish, is later than t
unerased(e, t) ==
  {rec.hash : rec \in {r \in e.admitted : r.t0 + maxPubLifetime + maxClockSkew > t}}

\* C19: while registering is true the engine expresses no sync request, publish
\* and timers included; on registration success registering becomes false and
\* the first sync request is sent, carrying an IBLT that includes every
\* publication published before the registration completed; on registration
\* failure an Error is raised and no request is ever sent.
C19_RegisteringGate ==
  [][\A n \in DOMAIN eng :
       /\ eng'[n].m_registering =>
            /\ pit'[n] = {}
            /\ interestsOf(n)' = {}
            /\ eng'[n].m_interestsSent = 0
       /\ (eng[n].m_registering /\ ~eng'[n].m_registering) =>
            /\ bench.error[n] = "none"
            /\ eng'[n].m_interestsSent = 1
            /\ \E i \in pit'[n] :
                 /\ pit'[n] = {i}
                 /\ i.nonce = eng'[n].m_currentInterest
                 /\ sameTable(eng'[n], i.name)
            /\ holdsOnce(eng'[n])
            /\ \A rec \in eng'[n].admitted : rec.hash \in held(eng'[n])
       /\ bench'.error[n] # "none" =>
            /\ bench'.error[n] = "Error"
            /\ eng'[n].m_registering
    ]_vars

\* C19, amended: as C19, but the IBLT of the first sync request holds the
\* publications published less than maxPubLifetime + maxClockSkew before the
\* registration completed, each once, and no other: the digest of an older
\* one has been erased from the IBLT by then.
C19_GateAndFirstRequest ==
  [][\A n \in DOMAIN eng :
       /\ eng'[n].m_registering =>
            /\ pit'[n] = {}
            /\ interestsOf(n)' = {}
            /\ eng'[n].m_interestsSent = 0
       /\ (eng[n].m_registering /\ ~eng'[n].m_registering) =>
            /\ bench.error[n] = "none"
            /\ eng'[n].m_interestsSent = 1
            /\ \E i \in pit'[n] :
                 /\ pit'[n] = {i}
                 /\ i.nonce = eng'[n].m_currentInterest
                 /\ sameTable(eng'[n], i.name)
            /\ holdsOnce(eng'[n])
            /\ held(eng'[n]) = unerased(eng'[n], now)
       /\ bench'.error[n] # "none" =>
            /\ bench'.error[n] = "Error"
            /\ eng'[n].m_registering
    ]_vars

\* C19, its case: one engine published while registering, had its
\* registration fail and has since run the events of the publication, the
\* sendSyncInterest of the erase event included; the other published before
\* its registration succeeded, and the one sync request it has sent carries
\* the IBLT with the publication's digest
C19_Witness ==
  \E n \in DOMAIN eng : \E m \in DOMAIN eng :
    /\ bench.error[m] = "Error"
    /\ eng[m].m_publications = 1
    /\ \A tm \in eng[m].timers : tm.kind = "remove"
    /\ ~eng[n].m_registering
    /\ eng[n].m_publications = 1
    /\ eng[n].m_interestsSent = 1
    /\ \E i \in pit[n] : \E rec \in eng[n].admitted :
         i.name = <<appendToName(insert(NewIBLT(eng[n].m_expectedNumEntries), rec.hash))>>

\* C20: once the registration has succeeded, in every state a re-issue
\* timer is pending: the event m_scheduledSyncInterestId names, due no later
\* than syncInterestLifetime - 20 ms from now; the clock does not pass an
\* event that is due, and when the event runs a new sync request is
\* expressed, whether or not a Data, a nack or a timeout has come for the
\* one outstanding.
C20_ReissuePending ==
  [][\A n \in DOMAIN eng :
       /\ ~eng'[n].m_registering =>
            \E tm \in eng'[n].timers :
              /\ tm.kind = "sync"
              /\ tm.seq = eng'[n].m_scheduledSyncInterestId
              /\ now' <= tm.at
              /\ tm.at <= now' + eng'[n].m_syncInterestLifetime - reExpressLead
       /\ (/\ ~eng[n].m_registering
           /\ timerDue(eng[n])
           /\ firstTimer(eng[n]).kind = "sync"
           /\ eng'[n] # eng[n]) =>
            /\ eng'[n].m_interestsSent = eng[n].m_interestsSent + 1
            /\ \E i \in pit'[n] \ pit[n] :
                 /\ i.nonce = eng'[n].m_currentInterest
                 /\ i.expiry = now + eng[n].m_syncInterestLifetime
            /\ \E tm \in eng'[n].timers :
                 /\ tm.kind = "sync"
                 /\ tm.at = now + eng[n].m_syncInterestLifetime - reExpressLead
    ]_vars

\* C20, its case: an engine that never published and admitted no publication
\* has sent its second sync request, syncInterestLifetime - 20 ms after the
\* first
C20_Witness ==
  \E n \in DOMAIN eng :
    /\ eng[n].m_publications = 0
    /\ eng[n].admitted = {}
    /\ eng[n].m_interestsSent = 2
    /\ now >= eng[n].m_syncInterestLifetime - reExpressLead

(***************************************************************************)
(* The re-issue timer                                                      *)
(***************************************************************************)
\* the re-issue events in the scheduler of e
reissues(e) == {tm \in e.timers : tm.kind = "sync"}

\* C30: at most one re-issue timer is pending at any time: sendSyncInterest
\* and sendSyncInterestSoon cancel the re-issue scheduled before; after a
\* send the next re-issue is due syncInterestLifetime - 20 ms later, after
\* the erase event of a publication 3 ms later.
C30_OneReissueTimer ==
  [][\A n \in DOMAIN eng :
       /\ Cardinality(reissues(eng'[n])) <= 1
       /\ \A tm \in reissues(eng'[n]) : tm.seq = eng'[n].m_scheduledSyncInterestId
       /\ eng'[n].m_interestsSent > eng[n].m_interestsSent =>
            \E tm \in reissues(eng'[n]) :
              tm.at = now + eng'[n].m_syncInterestLifetime - reExpressLead
       /\ (/\ timerDue(eng[n])
           /\ firstTimer(eng[n]).kind = "erase"
           /\ eng'[n] # eng[n]) =>
            \E tm \in reissues(eng'[n]) : tm.at = now + soonDelay
    ]_vars

\* C30, its case: an engine has sent a second sync request before the
\* re-issue scheduled by the first was due, and one re-issue is pending
C30_Witness ==
  \E n \in DOMAIN eng :
    /\ eng[n].m_interestsSent >= 2
    /\ now < eng[n].m_syncInterestLifetime - reExpressLead
    /\ Cardinality(reissues(eng[n])) = 1

(***************************************************************************)
(* What a sync response holds                                              *)
(***************************************************************************)
\* the IBLT of the interest name is the table of a set of digests that the
\* engine e has admitted, h not among them
lacks(e, name, h) ==
  \E S \in SUBSET ({rec.hash : rec \in e.admitted} \ {h}) :
    name = <<appendToName(onceEach(NewIBLT(e.m_expectedNumEntries), S))>>

\* the locally-published bit of the handle the store of e has for the
\* digest h
oursBit(e, h) == (e.m_active[e.m_hash2pub[h]] \div 2) % 2 = 1

\* the publication pub is in the store of e with its live bit set, and its
\* digest is in the member IBLT
offered(e, pub) ==
  /\ hashPub(pub) \in DOMAIN e.m_hash2pub
  /\ e.m_hash2pub[hashPub(pub)].pub = pub
  /\ liveBit(e, e.m_hash2pub[hashPub(pub)])
  /\ hashPub(pub) \in held(e)
  /\ holdsOnce(e)

\* C21: every publication placed in a sync response is, at the time of the
\* response, in the store of the responder with its live bit set, and its
\* digest is in the responder's IBLT and not in the requester's; the
\* publications classed as ours, which come first and of which there is at
\* least one, are those whose locally-published bit is set, and they are the
\* ones the responder published itself.
C21_ResponseHoldsLiveNeeded ==
  [][\A msg \in net' \ net : \A s \in (DOMAIN eng) \ {msg.to} :
       msg.kind = "D" =>
         /\ msg.content # <<>>
         /\ oursBit(eng'[s], hashPub(msg.content[1].pub))
         /\ \A i \in DOMAIN msg.content :
              /\ msg.content[i].type = tlvData
              /\ offered(eng'[s], msg.content[i].pub)
              /\ lacks(eng[msg.to], msg.name, hashPub(msg.content[i].pub))
              /\ oursBit(eng'[s], hashPub(msg.content[i].pub))
                   = (\E rec \in eng'[s].admitted :
                        rec.pub = msg.content[i].pub /\ rec.local)
              /\ \A j \in DOMAIN msg.content :
                   (i < j /\ oursBit(eng'[s], hashPub(msg.content[j].pub)))
                     => oursBit(eng'[s], hashPub(msg.content[i].pub))
    ]_vars

\* C21, its case: an engine has admitted a publication from a peer's sync
\* response, and an engine keeps a peer's interest pending whose IBLT lacks
\* a publication that the engine still has in its IBLT but whose live bit
\* has cleared
C21_Witness ==
  /\ \E n \in DOMAIN eng : \E rec \in eng[n].admitted : ~rec.local
  /\ \E s \in DOMAIN eng : \E r \in (DOMAIN eng) \ {s} :
       \E name \in DOMAIN eng[s].m_interests : \E p \in DOMAIN eng[s].m_active :
         /\ eng[s].m_active[p] % 2 = 0
         /\ hashPub(p.pub) \in held(eng[s])
         /\ lacks(eng[r], name, hashPub(p.pub))

(***************************************************************************)
(* Publishing from a subscription callback: two engines as in Spec, each   *)
(* publishing at most once on its own; the callback of the second          *)
(* publishes a reply to what it is given.  A Data whose content is not a   *)
(* block of publications may arrive for a pending sync interest.           *)
(***************************************************************************)
\* Data of the wrong content type that arrive
MaxForged == 1

\* a Data named 'name' whose content block has the type of a Data packet, not
\* syncpsContent
wrongData(n, name) ==
  [kind |-> "D", to |-> n, nonce |-> 0, name |-> name, expiry |-> 0,
   type |-> tlvData, content |-> <<>>]

\* a Data of the wrong content type is on its way for a sync interest node n
\* has pending
Forge(n) ==
  /\ noTimerDue
  /\ bench.forged < MaxForged
  /\ \E i \in pit[n] : net' = net \cup {wrongData(n, i.name)}
  /\ bench' = [bench EXCEPT !.forged = @ + 1]
  /\ UNCHANGED <<eng, now, pit, budget>>

NextReply ==
  \/ \E n \in DOMAIN eng : RegisterSuccess(n)
  \/ \E n \in DOMAIN eng : \E topic \in DOMAIN budget[n] : Publish(n, topic)
  \/ \E n \in DOMAIN eng : Forge(n)
  \/ \E msg \in net : DeliverInterest(msg)
  \/ \E msg \in net : DeliverData(msg)
  \/ \E n \in DOMAIN eng : FireTimer(n)
  \/ Advance

InitReply ==
  /\ eng = (1 :> NewEngine(1, ClockAhead, <<>>)) @@
           (2 :> NewEngine(2, 0, (<<Comp(1)>> :> "reply")))
  /\ now = 0
  /\ pit = [n \in {1, 2} |-> {}]
  /\ net = {}
  /\ budget = (1 :> (<<Comp(1)>> :> 1)) @@ (2 :> (<<Comp(2)>> :> 1))
  /\ bench = [op |-> "reply", forged |-> 0]

SpecReply == InitReply /\ [][NextReply]_vars

\* the sync interests of node n that the Data msg satisfies
satisfiedBy(n, msg) == {i \in pit[n] : i.name = msg.name}

\* the Data msg is for the interest whose nonce is m_currentInterest
forCurrent(n, msg) ==
  \E i \in satisfiedBy(n, msg) : i.nonce = eng[n].m_currentInterest

\* the calls 'op' on the face among 'calls'
callsOf(calls, op) == {k \in DOMAIN calls : calls[k].op = op}

\* no entry of m_interests of e is past its deadline at t, and none can be
\* answered
swept(e, t) ==
  \A name \in DOMAIN e.m_interests :
    /\ e.m_interests[name] > clockOf(e, t)
    /\ ~handleInterest(e, name).handled

\* the step is a publish call of the application of node n, or the arrival
\* at node n of a Data
publishCall(n) == \E topic \in DOMAIN budget[n] : budget'[n][topic] < budget[n][topic]
dataArrival(n) == \E msg \in net \ net' : msg.kind = "D" /\ msg.to = n
\* the Data that has arrived at node n was for the current sync interest
currentConsumed(n) ==
  \E msg \in net \ net' : msg.kind = "D" /\ msg.to = n /\ forCurrent(n, msg)

\* the step has sent a sync interest of node n that carries the member IBLT
\* as the step leaves it, the digest of each publication admitted in the
\* step in it
requestWithNew(n) ==
  /\ eng'[n].m_interestsSent > eng[n].m_interestsSent
  /\ \E i \in pit'[n] \ pit[n] :
       /\ i.nonce = eng'[n].m_currentInterest
       /\ sameTable(eng'[n], i.name)
  /\ holdsOnce(eng'[n])
  /\ \A rec \in eng'[n].admitted \ eng[n].admitted : rec.hash \in held(eng'[n])

\* C23: every accepted publish is followed, immediately, or at the end of the
\* current delivery when publish is called from a subscription callback, by
\* a new outbound sync request whose IBLT holds the new publication's
\* digest and by a sweep of the pending-interest table.
C23_PublishReissuesAndSweeps ==
  [][\A n \in DOMAIN eng :
       eng'[n].m_publications > eng[n].m_publications =>
         /\ requestWithNew(n)
         /\ swept(eng'[n], now)
    ]_vars

\* C23, amended: every accepted publish is followed by a sweep of the
\* pending-interest table, immediately or at the end of the current
\* delivery.  A new sync request whose IBLT holds the new digest is sent
\* with it only on a registered engine, and for a publish made in a
\* callback only when the Data delivered was for the current sync
\* interest; otherwise the handler sends none, and on a registered engine
\* the digest goes out with the re-issue that is pending.
C23_PublishSweepsAndMayReissue ==
  [][\A n \in DOMAIN eng :
       eng'[n].m_publications > eng[n].m_publications =>
         /\ swept(eng'[n], now)
         /\ ~eng'[n].m_delivering
         /\ IF ~eng[n].m_registering /\ (publishCall(n) \/ currentConsumed(n))
            THEN requestWithNew(n)
            ELSE /\ eng'[n].m_interestsSent = eng[n].m_interestsSent
                 /\ pit'[n] \subseteq pit[n]
                 /\ \A rec \in eng'[n].admitted \ eng[n].admitted :
                      rec.hash \in held(eng'[n])
                 /\ ~eng[n].m_registering => reissues(eng'[n]) # {}
    ]_vars

\* C23, its case: the reply published in a callback is in the IBLT of an
\* engine whose current sync interest does not carry it
C23_Witness ==
  \E n \in DOMAIN eng : \E rec \in eng[n].admitted : \E i \in pit[n] :
    /\ rec.pub.name[2] = Comp(200 + n)
    /\ rec.hash \in held(eng[n])
    /\ i.nonce = eng[n].m_currentInterest
    /\ ~sameTable(eng[n], i.name)

(***************************************************************************)
(* Delivery of a Data                                                      *)
(***************************************************************************)
\* the Data that arrive at node n in the step
arrived(n) == {msg \in net \ net' : msg.kind = "D" /\ msg.to = n}

\* between e and mid the engine has made no call on its face, sent no sync
\* interest and left the pending-interest table alone
quiet(e, mid) ==
  /\ mid.out = e.out
  /\ mid.m_interestsSent = e.m_interestsSent
  /\ mid.m_currentInterest = e.m_currentInterest
  /\ mid.m_interests = e.m_interests

\* the Data node n has put on the wire in the step answer entries that the
\* step has taken out of its pending-interest table
answeredRemoved(n) ==
  \A d \in net' \ net :
    d.kind = "D" =>
      d.name \in (DOMAIN eng[n].m_interests) \ (DOMAIN eng'[n].m_interests)

\* C24: while delivering is true a publish made from a callback sends no
\* sync request and runs no sweep; when the dispatch of the Data ends
\* delivering is false again, and handleInterests has run, once, if and only
\* if publicationsCount advanced during the delivery.
C24_DeliveryCoalesces ==
  [][\A n \in DOMAIN eng : \A msg \in arrived(n) :
       (msg.type = syncpsContent /\ satisfiedBy(n, msg) # {}) =>
         /\ delivering(eng[n], now, msg).m_delivering
         /\ quiet(eng[n], delivering(eng[n], now, msg))
         /\ ~eng'[n].m_delivering
         /\ IF eng'[n].m_publications > eng[n].m_publications
            THEN swept(eng'[n], now) /\ answeredRemoved(n)
            ELSE /\ eng'[n].m_interests = eng[n].m_interests
                 /\ \A d \in net' \ net : d.kind # "D"
    ]_vars

\* C24, its case: an engine has published the reply from its callback, in
\* the delivery of the Data that brought a peer's publication
C24_Witness ==
  \E n \in DOMAIN eng : \E rec \in eng[n].admitted : \E got \in eng[n].admitted :
    /\ rec.local /\ rec.pub.name[2] = Comp(200 + n)
    /\ ~got.local /\ got.t0 = rec.t0
    /\ ~eng[n].m_delivering

\* the step has sent a sync interest of node n with a nonce it had not used
reissued(n) ==
  /\ eng'[n].m_interestsSent > eng[n].m_interestsSent
  /\ eng'[n].m_currentInterest # eng[n].m_currentInterest
  /\ \E i \in pit'[n] \ pit[n] : i.nonce = eng'[n].m_currentInterest
  /\ \A i \in pit[n] : i.nonce # eng'[n].m_currentInterest

\* the step has sent no sync interest of node n
noRequest(n) ==
  /\ eng'[n].m_interestsSent = eng[n].m_interestsSent
  /\ eng'[n].m_currentInterest = eng[n].m_currentInterest
  /\ pit'[n] \subseteq pit[n]

\* the Data that has arrived at node n was for the current sync interest and
\* its content is a block of publications
currentAnswered(n) ==
  \E msg \in arrived(n) : forCurrent(n, msg) /\ msg.type = syncpsContent

\* C25: whenever a validated Data arrives for the request whose nonce is
\* currentNonce the engine issues a new sync request with a fresh nonce
\* before the handler returns; a Data for a request of any other nonce
\* issues none.
C25_DataReissues ==
  [][\A n \in DOMAIN eng :
       dataArrival(n) => IF currentConsumed(n) THEN reissued(n) ELSE noRequest(n)
    ]_vars

\* C25, amended: a validated Data whose content is a block of publications
\* and that arrives for the request whose nonce is currentNonce makes the
\* engine issue a new sync request with a fresh nonce before the handler
\* returns; a Data for a request of any other nonce, or whose content is of
\* another type, issues none.
C25_PublicationDataReissues ==
  [][\A n \in DOMAIN eng :
       dataArrival(n) => IF currentAnswered(n) THEN reissued(n) ELSE noRequest(n)
    ]_vars

\* C25, its case: an engine has admitted a peer's publication from a Data,
\* and its current sync interest was expressed at that time
C25_Witness ==
  \E n \in DOMAIN eng : \E rec \in eng[n].admitted : \E i \in pit[n] :
    /\ ~rec.local
    /\ i.nonce = eng[n].m_currentInterest
    /\ i.expiry = rec.t0 + eng[n].m_syncInterestLifetime
    /\ eng[n].m_interestsSent >= 2

(***************************************************************************)
(* A peer the engine does not control: engine 2 on its own, with what a    *)
(* peer may send it.  The peer's sync interests carry a table in which a   *)
(* key is in one cell only, so that peeling the difference fails; its Data *)
(* carry, and the application publishes, two publications whose wire       *)
(* encodings have the same murmurHash3 digest.  publish takes the          *)
(* publication as the application built it.                                *)
(***************************************************************************)
\* two publications with hashPub = 0x0314da40
CollideX == [name |-> <<Comp(1), Comp(103), TimestampComp(835)>>, content |-> 0]
CollideY == [name |-> <<Comp(2), Comp(103), TimestampComp(78)>>, content |-> 5]
CollidePubs == {CollideX, CollideY}

\* Data of the peer that arrive
MaxPeerData == 1
\* sync interests of the peer that arrive
MaxCorrupt == 1
\* the key of the corrupt tables
CorruptKey == <<0, 1>>

\* a table of the peer with the key in the cell idx and in no other
corruptTable(idx, key) ==
  [NewIBLT(ExpectedNumEntries) EXCEPT
     ![idx] = updateEntry(@, INSERT, key, murmurHash3(N_HASHCHECK, key))]

\* the application of node n publishes pub
PublishOne(n, pub) ==
  /\ noTimerDue
  /\ pub \in bench.left
  /\ bench' = [bench EXCEPT !.left = @ \ {pub}]
  /\ Ran(n, publish(eng[n], now, pub), pit, net)
  /\ UNCHANGED <<now, budget>>

\* a Data of the peer with the publication pub is on its way for a sync
\* interest node n has pending
PeerData(n, pub) ==
  /\ noTimerDue
  /\ bench.data < MaxPeerData
  /\ \E i \in pit[n] : net' = net \cup {dataFor(n, i.name, pub)}
  /\ bench' = [bench EXCEPT !.data = @ + 1]
  /\ UNCHANGED <<eng, now, pit, budget>>

\* a sync interest of the peer with a corrupt table is on its way to node n
PeerInterest(n, idx) ==
  /\ noTimerDue
  /\ bench.interests < MaxCorrupt
  /\ ~eng[n].m_registering
  /\ net' = net \cup {interestFor(n, 9001 + bench.interests,
                                  appendToName(corruptTable(idx, CorruptKey)))}
  /\ bench' = [bench EXCEPT !.interests = @ + 1]
  /\ UNCHANGED <<eng, now, pit, budget>>

NextPeer ==
  \/ \E n \in DOMAIN eng : RegisterSuccess(n)
  \/ \E n \in DOMAIN eng : \E pub \in CollidePubs : PublishOne(n, pub)
  \/ \E n \in DOMAIN eng : \E pub \in CollidePubs : PeerData(n, pub)
  \/ \E n \in DOMAIN eng : \E idx \in DOMAIN eng[n].m_iblt : PeerInterest(n, idx)
  \/ \E msg \in net : DeliverInterest(msg)
  \/ \E msg \in net : DeliverData(msg)
  \/ \E n \in DOMAIN eng : FireTimer(n)
  \/ Advance

InitPeer ==
  /\ eng = (2 :> NewEngine(2, 0, (<<Comp(1)>> :> "log")))
  /\ now = 0
  /\ pit = (2 :> {})
  /\ net = {}
  /\ budget = (2 :> <<>>)
  /\ bench = [op |-> "peer", left |-> CollidePubs, data |-> 0, interests |-> 0]

SpecPeer == InitPeer /\ [][NextPeer]_vars

\* the name carries a table of the engine's size, and listEntries returns
\* false on the difference of the member IBLT and it
peelFails(e, name) ==
  /\ initialize(NewIBLT(e.m_expectedNumEntries), name[Len(name)]).ok
  /\ ~listEntries(Subtract(e.m_iblt,
                           initialize(NewIBLT(e.m_expectedNumEntries),
                                      name[Len(name)]).iblt)).ok

\* C22: when peeling the difference between the member IBLT and a peer's
\* IBLT fails (listEntries returns false), handleInterest treats the request
\* as satisfied: it returns true, puts no Data built from the partial
\* result, and the request is not added to the pending-interest table.
C22_PeelFailureSatisfied ==
  [][\A msg \in net \ net' :
       (msg.kind = "I" /\ peelFails(eng[msg.to], msg.name)) =>
         /\ handleInterest(eng[msg.to], msg.name).handled
         /\ handleInterest(eng[msg.to], msg.name).e.out = eng[msg.to].out
         /\ msg.name \notin DOMAIN eng'[msg.to].m_interests
    ]_vars

\* the publications offered to node n in the step: by the application's
\* publish, or in a Data that has arrived for a pending sync interest
offeredIn(n) ==
  (bench.left \ bench'.left)
    \cup UNION {{msg.content[k].pub : k \in DOMAIN msg.content} :
                  msg \in {d \in arrived(n) : satisfiedBy(n, d) # {}}}

\* the step has left the store, the side table, the member IBLT and the
\* publication count of node n as they were
storeKept(n) ==
  /\ eng'[n].m_active = eng[n].m_active
  /\ eng'[n].m_hash2pub = eng[n].m_hash2pub
  /\ eng'[n].m_iblt = eng[n].m_iblt
  /\ eng'[n].m_publications = eng[n].m_publications

\* C27: a publication, local or received, whose digest equals that of a
\* publication the engine knows is dropped, also when the two differ: the
\* store, the side table and the member IBLT are as they were, and the IBLT
\* never holds a digest more than once.
C27_CollisionDropped ==
  [][\A n \in DOMAIN eng :
       /\ holdsOnce(eng'[n])
       /\ \A pub \in offeredIn(n) :
            hashPub(pub) \in DOMAIN eng[n].m_hash2pub => storeKept(n)
    ]_vars

\* C27, its case: the application has published both publications and the
\* engine has admitted one of them only, which it still knows
C27_Witness ==
  /\ bench.left = {}
  /\ \E n \in DOMAIN eng :
       /\ hashPub(CollideX) \in DOMAIN eng[n].m_hash2pub
       /\ Cardinality({rec \in eng[n].admitted : rec.pub \in CollidePubs}) = 1

(***************************************************************************)
(* Pending requests of a peer and late publishes: one engine, a peer that  *)
(* sends sync interests, and an application that publishes at any instant  *)
(* up to MaxWait                                                           *)
(***************************************************************************)
\* the sync interests the peer sends
MaxPeerSync == 2

\* the publishes of the application
MaxLate == 2

\* the keys of a peer that holds more publications than a table decodes
CrowdKeys == {<<0, k>> : k \in 1..6}

\* the IBLTs the peer's interests carry: nothing held, and CrowdKeys held
PeerTables ==
  {NewIBLT(ExpectedNumEntries), onceEach(NewIBLT(ExpectedNumEntries), CrowdKeys)}

\* the entries of m_interests of e whose deadline the clock of e has reached
overdue(e, t) == {name \in DOMAIN e.m_interests : e.m_interests[name] <= clockOf(e, t)}

\* the application of node n publishes at the present instant
PublishNow(n) ==
  /\ noTimerDue
  /\ bench.publishes < MaxLate
  /\ bench' = [bench EXCEPT !.publishes = @ + 1,
                            !.overdue = @ \cup overdue(eng[n], now)]
  /\ Ran(n, publish(eng[n], now, newPub(n, <<Comp(n)>>)), pit, net)
  /\ UNCHANGED <<now, budget>>

\* a sync interest of the peer, carrying the table t, is on its way to node n
PeerSync(n, t) ==
  /\ noTimerDue
  /\ bench.syncs < MaxPeerSync
  /\ ~eng[n].m_registering
  /\ net' = net \cup {[kind |-> "I", to |-> n, nonce |-> 9001 + bench.syncs,
                       name |-> <<appendToName(t)>>,
                       expiry |-> now + defaultSyncInterestLifetime,
                       type |-> 0, content |-> <<>>]}
  /\ bench' = [bench EXCEPT !.syncs = @ + 1]
  /\ UNCHANGED <<eng, now, pit, budget>>

NextSweep ==
  \/ \E n \in DOMAIN eng : RegisterSuccess(n)
  \/ \E n \in DOMAIN eng : PublishNow(n)
  \/ \E n \in DOMAIN eng : \E t \in PeerTables : PeerSync(n, t)
  \/ \E msg \in net : DeliverInterest(msg)
  \/ \E n \in DOMAIN eng : FireTimer(n)
  \/ Wait

InitSweep ==
  /\ eng = (2 :> NewEngine(2, 0, <<>>))
  /\ now = 0
  /\ pit = (2 :> {})
  /\ net = {}
  /\ budget = (2 :> <<>>)
  /\ bench = [op |-> "sweep", publishes |-> 0, syncs |-> 0, overdue |-> {}]

SpecSweep == InitSweep /\ [][NextSweep]_vars

\* handleInterests as publish runs it in this step: over the entries node n
\* had, with the store and the IBLT the publish leaves
sweepOf(n) == handleInterests([eng'[n] EXCEPT !.m_interests = eng[n].m_interests], now)

\* the entries of node n a sweep at this instant leaves: the deadline is
\* still ahead and handleInterest returns false
leftBySweep(n) ==
  {name \in DOMAIN eng[n].m_interests :
     /\ eng[n].m_interests[name] > clockOf(eng[n], now)
     /\ ~handleInterest(eng'[n], name).handled}

\* C28: a sweep of m_interests (handleInterests, run by an accepted publish)
\* leaves exactly the entries whose deadline is still ahead and that
\* handleInterest could not satisfy, with their deadlines; an entry whose
\* deadline has been reached is removed and no Data is put for it.
C28_SweepLeavesUnmet ==
  [][\A n \in DOMAIN eng :
       eng'[n].m_publications > eng[n].m_publications =>
         /\ DOMAIN eng'[n].m_interests = leftBySweep(n)
         /\ \A name \in leftBySweep(n) :
              eng'[n].m_interests[name] = eng[n].m_interests[name]
         /\ sweepOf(n).m_interests = eng'[n].m_interests
         /\ {sweepOf(n).out[k].name : k \in callsOf(sweepOf(n).out, "put")}
              = (DOMAIN eng[n].m_interests) \ (leftBySweep(n) \cup overdue(eng[n], now))]_vars

\* a publish met an entry past its deadline, and an entry is still pending
\* after a publish
C28_Witness ==
  /\ bench.op = "sweep"
  /\ bench.overdue # {}
  /\ \E n \in DOMAIN eng :
       /\ eng[n].m_publications > 0
       /\ DOMAIN eng[n].m_interests # {}
       /\ \E name \in bench.overdue : name \notin DOMAIN eng[n].m_interests

(***************************************************************************)
(* Erase events a few milliseconds apart: one engine whose application     *)
(* publishes at any instant, the first SoonTicks of them 1 ms apart        *)
(***************************************************************************)
\* the instants after 0 that are a millisecond apart
SoonTicks == 2

\* a millisecond passes; after the first instants the clock goes to the next
\* event
Tick ==
  /\ noTimerDue
  /\ passTo(IF now < SoonTicks THEN now + 1 ELSE nextTime)
  /\ UNCHANGED <<eng, budget, bench>>

NextSoon ==
  \/ \E n \in DOMAIN eng : RegisterSuccess(n)
  \/ \E n \in DOMAIN eng : PublishNow(n)
  \/ \E n \in DOMAIN eng : FireTimer(n)
  \/ Tick

InitSoon ==
  /\ eng = (2 :> NewEngine(2, 0, <<>>))
  /\ now = 0
  /\ pit = (2 :> {})
  /\ net = {}
  /\ budget = (2 :> <<>>)
  /\ bench = [op |-> "soon", publishes |-> 0, syncs |-> 0, overdue |-> {}]

SpecSoon == InitSoon /\ [][NextSoon]_vars

\* the instant of the erase event of the publication rec was admitted as
eraseAt(rec) == rec.t0 + maxPubLifetime + maxClockSkew

\* the instant at which node n expressed the interest i pending at its face
issuedAt(i) == i.expiry - defaultSyncInterestLifetime

\* the events of e that call sendSyncInterest
syncEvents(e) == {tm \in e.timers : tm.kind = "sync"}

\* the erase event of rec has run
erased(e, rec) == eraseAt(rec) <= now /\ rec.hash \notin held(e)

\* node n had expressed a sync interest before the instant t
registeredBefore(n, t) == \E i \in pit[n] : issuedAt(i) < t

\* C29 as stated: when the L+S timer of a publication fires its digest is
\* erased from the member IBLT and, on a registered engine, a sync request
\* carrying an IBLT without that digest is issued 3 ms later.
C29_EraseReissuesAfter3ms ==
  \A n \in DOMAIN eng : \A rec \in eng[n].admitted :
    /\ erased(eng[n], rec) => holdsOnce(eng[n])
    /\ ( /\ registeredBefore(n, eraseAt(rec))
         /\ \/ now > eraseAt(rec) + soonDelay
            \/ now = eraseAt(rec) + soonDelay /\ noTimerDue )
       => \E i \in pit[n] : /\ issuedAt(i) = eraseAt(rec) + soonDelay
                            /\ lacks(eng[n], i.name, rec.hash)

\* the step runs the erase event of node n that is due
eraseFires(n) ==
  /\ timerDue(eng[n])
  /\ firstTimer(eng[n]).kind = "erase"
  /\ eng'[n] # eng[n]

\* the erase event leaves the IBLT without its digest and one event that
\* calls sendSyncInterest, 3 ms ahead; it expresses nothing itself
erasedAndSet(n) ==
  /\ firstTimer(eng[n]).hash \notin held(eng'[n])
  /\ holdsOnce(eng'[n])
  /\ {tm.at : tm \in syncEvents(eng'[n])} = {now + soonDelay}
  /\ eng'[n].m_interestsSent = eng[n].m_interestsSent
  /\ pit' = pit

\* a request without the digest of rec is the current one of node n, or the
\* event that sends it is set for 3 ms after the erase event of rec or of a
\* publication admitted after rec
reissuedOrSet(n, rec) ==
  \/ \E i \in pit[n] : /\ i.nonce = eng[n].m_currentInterest
                       /\ lacks(eng[n], i.name, rec.hash)
  \/ \E tm \in syncEvents(eng[n]) : \E r \in eng[n].admitted :
       /\ r.t0 >= rec.t0
       /\ erased(eng[n], r)
       /\ tm.at = eraseAt(r) + soonDelay

\* C29 amended: when the L+S timer of a publication fires its digest is
\* erased from the member IBLT and the one event that re-issues the sync
\* request is set to 3 ms later, replacing the event that was set; on a
\* registered engine a request carrying an IBLT without that digest is
\* issued when the event runs, unless a request without the digest was sent
\* sooner or a later erase event has set the event again.
C29_EraseSetsReissue ==
  /\ [][\A n \in DOMAIN eng : eraseFires(n) => erasedAndSet(n)]_vars
  /\ [](\A n \in DOMAIN eng : \A rec \in eng[n].admitted :
          (erased(eng[n], rec) /\ ~eng[n].m_registering) => reissuedOrSet(n, rec))

\* a registered engine has issued, 3 ms after the erase event of a
\* publication, a request whose IBLT is without its digest
C29_Witness ==
  /\ bench.op = "soon"
  /\ \E n \in DOMAIN eng : \E rec \in eng[n].admitted :
       /\ registeredBefore(n, eraseAt(rec))
       /\ \E i \in pit[n] : /\ issuedAt(i) = eraseAt(rec) + soonDelay
                            /\ lacks(eng[n], i.name, rec.hash)

(***************************************************************************)
(* A handle that leaves the store before its events have run: one engine,  *)
(* and removeFromActive run ahead of the event at 2 * maxPubLifetime        *)
(***************************************************************************)
\* the handles that leave the store early
MaxEvict == 1

\* removeFromActive(p) runs before the events of the handle p, which was
\* stored at an earlier instant
Evict(n, p) ==
  /\ noTimerDue
  /\ bench.evicted < MaxEvict
  /\ p.id < now
  /\ bench' = [bench EXCEPT !.evicted = @ + 1]
  /\ eng' = [eng EXCEPT ![n] = removeFromActive(@, p)]
  /\ UNCHANGED <<now, pit, net, budget>>

NextEvict ==
  \/ \E n \in DOMAIN eng : RegisterSuccess(n)
  \/ \E n \in DOMAIN eng : PublishNow(n)
  \/ \E n \in DOMAIN eng : \E p \in DOMAIN eng[n].m_active : Evict(n, p)
  \/ \E n \in DOMAIN eng : FireTimer(n)
  \/ Tick

InitEvict ==
  /\ eng = (2 :> NewEngine(2, 0, <<>>))
  /\ now = 0
  /\ pit = (2 :> {})
  /\ net = {}
  /\ budget = (2 :> <<>>)
  /\ bench = [op |-> "evict", publishes |-> 0, syncs |-> 0, overdue |-> {},
              evicted |-> 0]

SpecEvict == InitEvict /\ [][NextEvict]_vars

\* the event of node n that is due is one of the three of a handle, and the
\* handle is not in the store
absentFires(n, kind) ==
  /\ timerDue(eng[n])
  /\ firstTimer(eng[n]).kind = kind
  /\ firstTimer(eng[n]).h \notin DOMAIN eng[n].m_active

\* the store, the side table and the member IBLT of node n stay as they are
storeUntouched(n) ==
  /\ eng'[n].m_active = eng[n].m_active
  /\ eng'[n].m_hash2pub = eng[n].m_hash2pub
  /\ eng'[n].m_iblt = eng[n].m_iblt

MaxFilter == 4

\* the timestamps of the publications, so that some are equal
FilterStamps == 0..2

\* the k-th handle handleInterest found, its publication stamped ts
filterHandle(k, ts) ==
  [id |-> k, pub |-> [name |-> <<Comp(1), Comp(100 + k), TimestampComp(ts)>>,
                      content |-> 0]]

\* handleInterest finds one more live publication the peer lacks, ours
\* (pOurs.push_back) or not (pOthers.push_back)
FilterAdd(ours, ts) ==
  /\ bench.op = "lists"
  /\ Len(bench.ours) + Len(bench.others) < MaxFilter
  /\ bench' = IF ours
              THEN [bench EXCEPT !.ours =
                      Append(@, filterHandle(Len(@) + Len(bench.others) + 1, ts))]
              ELSE [bench EXCEPT !.others =
                      Append(@, filterHandle(Len(@) + Len(bench.ours) + 1, ts))]
  /\ UNCHANGED <<eng, now, pit, net, budget>>

\* handleInterest from m_filterPubs(pOurs, pOthers) to its return
FilterRun ==
  /\ bench.op = "lists"
  /\ bench' = [bench EXCEPT
       !.op = "filtered",
       !.result = filterPubs(bench.ours, bench.others),
       !.answer = answer(NewEngine(2, 0, <<>>), <<Comp(0)>>,
                         filterPubs(bench.ours, bench.others))]
  /\ UNCHANGED <<eng, now, pit, net, budget>>

NextFilter ==
  \/ \E ours \in BOOLEAN : \E ts \in FilterStamps : FilterAdd(ours, ts)
  \/ FilterRun

InitFilter ==
  /\ eng = <<>>
  /\ now = 0
  /\ pit = <<>>
  /\ net = {}
  /\ budget = <<>>
  /\ bench = [op |-> "lists", ours |-> <<>>, others |-> <<>>, result |-> <<>>,
              answer |-> [handled |-> FALSE, e |-> NewEngine(2, 0, <<>>)]]

SpecFilter == InitFilter /\ [][NextFilter]_vars

\* the elements of the list
elementsOf(list) == {list[i] : i \in DOMAIN list}

\* the list is most recent first
recentFirst(list) ==
  \A i, j \in DOMAIN list :
    i < j => pubTimestamp(list[i].pub) >= pubTimestamp(list[j].pub)

\* C31: with the default filter a request is answered only when at least one
\* live publication the peer lacks was published locally: with an empty ours
\* list the result is empty, even when others is not, and handleInterest
\* returns false without a Data; otherwise the result is ours, most recent
\* first by the timestamp of the last name component, followed by others,
\* most recent first, no publication dropped or duplicated.
C31_OursThenOthers ==
  bench.op = "filtered" =>
    IF bench.ours = <<>>
    THEN /\ bench.result = <<>>
         /\ ~bench.answer.handled
         /\ bench.answer.e.out = <<>>
    ELSE /\ Len(bench.result) = Len(bench.ours) + Len(bench.others)
         /\ elementsOf(SubSeq(bench.result, 1, Len(bench.ours))) = elementsOf(bench.ours)
         /\ elementsOf(SubSeq(bench.result, Len(bench.ours) + 1, Len(bench.result)))
              = elementsOf(bench.others)
         /\ recentFirst(SubSeq(bench.result, 1, Len(bench.ours)))
         /\ recentFirst(SubSeq(bench.result, Len(bench.ours) + 1, Len(bench.result)))
         /\ bench.answer.handled
         /\ Len(bench.answer.e.out) = 1

\* the filter ran on two lists of two, neither most recent first
C31_Witness ==
  /\ bench.op = "filtered"
  /\ Len(bench.ours) = 2
  /\ Len(bench.others) = 2
  /\ ~recentFirst(bench.ours)
  /\ ~recentFirst(bench.others)

(***************************************************************************)
(* Inbound sync interests of any nonce and any name: one engine that       *)
(* publishes, and a face that hands it interests under its prefix          *)
(***************************************************************************)
\* the interests the face hands to the engine
MaxInbound == 1

\* the components after the prefix: none, one (the table of a peer that
\* holds nothing, or CrowdKeys), two
InboundNames ==
  {<<>>,
   <<appendToName(NewIBLT(ExpectedNumEntries))>>,
   <<appendToName(onceEach(NewIBLT(ExpectedNumEntries), CrowdKeys))>>,
   <<Comp(7), appendToName(NewIBLT(ExpectedNumEntries))>>}

\* an interest with 'nonce' and the components 'name' after the prefix is on
\* its way to node n: one of a peer, or one the library loops back
Inbound(n, nonce, name) ==
  /\ noTimerDue
  /\ bench.syncs < MaxInbound
  /\ ~eng[n].m_registering
  /\ net' = net \cup {[kind |-> "I", to |-> n, nonce |-> nonce, name |-> name,
                       expiry |-> now + defaultSyncInterestLifetime,
                       type |-> 0, content |-> <<>>]}
  /\ bench' = [bench EXCEPT !.syncs = @ + 1,
                            !.last = [nonce |-> nonce, name |-> name]]
  /\ UNCHANGED <<eng, now, pit, budget>>

NextInbound ==
  \/ \E n \in DOMAIN eng : RegisterSuccess(n)
  \/ \E n \in DOMAIN eng : PublishNow(n)
  \/ \E n \in DOMAIN eng :
       \E nonce \in {eng[n].m_currentInterest, 9001 + bench.syncs} :
         \E name \in InboundNames \cup {i.name : i \in pit[n]} : Inbound(n, nonce, name)
  \/ \E msg \in net : DeliverInterest(msg)
  \/ \E n \in DOMAIN eng : FireTimer(n)
  \/ Advance

InitInbound ==
  /\ eng = (2 :> NewEngine(2, 0, (<<Comp(1)>> :> "log")))
  /\ now = 0
  /\ pit = (2 :> {})
  /\ net = {}
  /\ budget = (2 :> <<>>)
  /\ bench = [op |-> "inbound", publishes |-> 0, syncs |-> 0, overdue |-> {},
              last |-> [nonce |-> 0, name |-> <<>>]]

SpecInbound == InitInbound /\ [][NextInbound]_vars

\* the step hands the interest msg to onSyncInterest
handedIn(msg) == msg \in net /\ msg.kind = "I" /\ msg \notin net'

\* the names of the Data onSyncInterest puts for msg
putFor(msg) ==
  {onSyncInterest(eng[msg.to], now, msg).out[k].name :
     k \in callsOf(onSyncInterest(eng[msg.to], now, msg).out, "put")}

\* onSyncInterest leaves the pending table of the node as it was and puts no
\* Data
droppedIn(msg) ==
  /\ eng'[msg.to].m_interests = eng[msg.to].m_interests
  /\ putFor(msg) = {}

\* onSyncInterest answers msg with a Data of its name, or records the name
\* with the deadline a lifetime ahead
processedIn(msg) ==
  \/ /\ putFor(msg) = {msg.name}
     /\ msg.name \notin DOMAIN eng'[msg.to].m_interests
  \/ /\ putFor(msg) = {}
     /\ msg.name \in DOMAIN eng'[msg.to].m_interests
     /\ eng'[msg.to].m_interests[msg.name]
          = clockOf(eng[msg.to], now) + defaultSyncInterestLifetime

\* C32: an inbound sync request whose nonce equals currentNonce is dropped as
\* a loopback: it produces no Data and no pending-interest entry, whatever
\* its name; a request with any other nonce is processed (answered or
\* recorded when its name is the prefix and one component).
C32_LoopbackDropped ==
  [][\A msg \in net : handedIn(msg) =>
       IF msg.nonce = eng[msg.to].m_currentInterest
       THEN droppedIn(msg)
       ELSE Len(msg.name) = 1 => processedIn(msg)]_vars

\* an interest with the engine's current nonce and a name a Data would
\* answer was handed in: the peer holds nothing and the engine has a live
\* publication of its own
C32_Witness ==
  /\ bench.op = "inbound"
  /\ bench.syncs > 0
  /\ net = {}
  /\ bench.last.name = <<appendToName(NewIBLT(ExpectedNumEntries))>>
  /\ \E n \in DOMAIN eng :
       /\ bench.last.nonce = eng[n].m_currentInterest
       /\ DOMAIN eng[n].m_interests = {}
       /\ \E rec \in eng[n].admitted : rec.local /\ isLive(eng[n], rec.hash)

\* C33: an inbound sync request whose name is not exactly the registered
\* prefix plus one component is dropped: no Data is emitted and no
\* pending-interest entry is created, so every name in the pending-interest
\* table has exactly one component beyond the prefix.
C33_MalformedDropped ==
  /\ [][\A msg \in net : (handedIn(msg) /\ Len(msg.name) # 1) => droppedIn(msg)]_vars
  /\ [](\A n \in DOMAIN eng : \A name \in DOMAIN eng[n].m_interests : Len(name) = 1)

\* an interest of a peer whose name has no component, or two, after the
\* prefix was handed to an engine with a live publication of its own
C33_Witness ==
  /\ bench.op = "inbound"
  /\ bench.syncs > 0
  /\ net = {}
  /\ Len(bench.last.name) # 1
  /\ \E n \in DOMAIN eng :
       /\ bench.last.nonce # eng[n].m_currentInterest
       /\ \E rec \in eng[n].admitted : rec.local /\ isLive(eng[n], rec.hash)

\* the store, the side table, the member IBLT, the subscriptions and the
\* current nonce of the engines a and b are the same
sameMembers(a, b) ==
  /\ a.m_active = b.m_active
  /\ a.m_hash2pub = b.m_hash2pub
  /\ a.m_iblt = b.m_iblt
  /\ a.m_subscription = b.m_subscription
  /\ a.m_currentInterest = b.m_currentInterest

\* the calls on the face and the scheduler in 'out' are Data put
onlyPuts(out) == \A k \in DOMAIN out : out[k].op = "put"

\* C38: handling an inbound sync request (onSyncInterest, handleInterest,
\* handleInterests) never changes the publication store, the digest side
\* table, the member IBLT, the subscription table or currentNonce; only the
\* pending-interest table and the Data emitted can change.
C38_InboundFrame ==
  [][\A n \in DOMAIN eng :
       /\ \A msg \in net : (handedIn(msg) /\ msg.to = n) =>
            /\ sameMembers(eng'[n], eng[n])
            /\ eng'[n].timers = eng[n].timers
            /\ onlyPuts(onSyncInterest(eng[n], now, msg).out)
            /\ pit' = pit
       /\ eng'[n].m_publications > eng[n].m_publications =>
            /\ sameMembers(sweepOf(n), eng'[n])
            /\ sweepOf(n).timers = eng'[n].timers
            /\ onlyPuts(sweepOf(n).out)
            /\ \A name \in DOMAIN eng[n].m_interests :
                 sameMembers(handleInterest(eng'[n], name).e, eng'[n])]_vars

\* an interest of a peer was recorded, and a publish later swept the table
\* with its entry in it
C38_Witness ==
  /\ bench.op = "inbound"
  /\ net = {}
  /\ \E n \in DOMAIN eng : \E name \in DOMAIN eng[n].m_interests :
       \E rec \in eng[n].admitted :
         /\ rec.local
         /\ eng[n].m_interests[name] < clockOf(eng[n], rec.t0) + defaultSyncInterestLifetime

(***************************************************************************)
(* erase on tables built by insert, erase and operator-                    *)
(***************************************************************************)
\* the cells of the key in the table t, one in each sub-table
cellsOf(t, key) == {hashN(t, i, key) : i \in 0..(N_HASH - 1)}

\* a cell of the key is empty, or is pure and holds another key
hasBadPeer(t, key) ==
  \E i \in cellsOf(t, key) :
    \/ t[i].count = 0 /\ t[i].keySum = W0 /\ t[i].keyCheck = W0
    \/ /\ t[i].count \in {1, -1}
       /\ t[i].keyCheck = murmurHash3(N_HASHCHECK, t[i].keySum)
       /\ t[i].keySum # key

\* the table 'after' is 'before' with 1 taken from the count and the key and
\* its check hash XORed into the sums of the three cells of the key, and of
\* no other cell
erasedFrom(before, after, key) ==
  /\ DOMAIN after = DOMAIN before
  /\ Cardinality(cellsOf(before, key)) = N_HASH
  /\ \A i \in DOMAIN before :
       IF i \in cellsOf(before, key)
       THEN /\ after[i].count = before[i].count - 1
            /\ after[i].keySum = Xor32[before[i].keySum, key]
            /\ after[i].keyCheck
                 = Xor32[before[i].keyCheck, murmurHash3(N_HASHCHECK, key)]
       ELSE after[i] = before[i]

\* C34: erase(key) called when badPeers(key) holds (one of the three cells of
\* the key is empty, or is pure but holds a different key) leaves every cell
\* of the IBLT unchanged; otherwise it subtracts 1 from the count and XORs
\* the key and its check hash into exactly the three cells of the key.
C34_EraseGuarded ==
  [][bench'.op \in {"erase", "undo"} =>
       IF hasBadPeer(bench.iblt, bench'.key)
       THEN bench'.iblt = bench.iblt
       ELSE erasedFrom(bench.iblt, bench'.iblt, bench'.key)]_vars

\* an erase was refused on a table where no cell of the key is empty, and
\* the table still holds what it held
C34_Witness ==
  /\ bench.op = "erase"
  /\ hasBadPeer(bench.iblt, bench.key)
  /\ \A i \in cellsOf(bench.iblt, bench.key) : ~isEmpty(bench.iblt[i])
  /\ bench.iblt = bench.before

(***************************************************************************)
(* listEntries one cell at a time, on differences of tables built by       *)
(* insert and on differences with tables a peer made up                    *)
(***************************************************************************)
\* the keys the two tables of a difference hold
ListKeys == {WordOf(1), WordOf(2), WordOf(3), WordOf(4)}

\* the key a made-up table of the peer holds in one cell only
StrayKey == WordOf(7)

\* the peels the model follows beyond one per cell
MaxExtraPeels == 2

\* the difference of the table that holds the keys f sends to "a" and the
\* table that holds the keys f sends to "b"
honestDiff(f) ==
  Subtract(onceEach(NewIBLT(ExpectedNumEntries), {k \in ListKeys : f[k] = "a"}),
           onceEach(NewIBLT(ExpectedNumEntries), {k \in ListKeys : f[k] = "b"}))

\* the difference t when the peer's table lacks the key in the cell idx alone
strayIn(t, idx, key) ==
  [t EXCEPT ![idx] = updateEntry(@, INSERT, key, murmurHash3(N_HASHCHECK, key))]

\* a difference with a table the peer made up: the key alone in a cell that
\* is not one of its three, and in its three cells a count of 2 with sums
\* that are those of no key
stuckTable ==
  [i \in DOMAIN NewIBLT(ExpectedNumEntries) |->
     IF i = CHOOSE j \in DOMAIN NewIBLT(ExpectedNumEntries) :
              j \notin cellsOf(NewIBLT(ExpectedNumEntries), StrayKey)
     THEN updateEntry(EmptyEntry, INSERT, StrayKey, murmurHash3(N_HASHCHECK, StrayKey))
     ELSE IF i \in cellsOf(NewIBLT(ExpectedNumEntries), StrayKey)
     THEN [count |-> 2, keySum |-> WordOf(9), keyCheck |-> W0]
     ELSE EmptyEntry]

\* the tables listEntries is called on
ListTables ==
  {honestDiff(f) : f \in [ListKeys -> {"a", "b", "none"}]}
    \cup {strayIn(honestDiff(f), idx, StrayKey) :
            f \in [ListKeys -> {"a", "b", "none"}],
            idx \in DOMAIN NewIBLT(ExpectedNumEntries)}
    \cup {stuckTable}

\* positive.insert(keySum) or negative.insert(keySum), by the count of the
\* pure cell
reportedAll(sets, entry) ==
  [positive |-> sets.positive \cup {entry.keySum}, negative |-> sets.negative]

reported(sets, entry) ==
  IF entry.count = 1
  THEN [positive |-> sets.positive \cup {entry.keySum}, negative |-> sets.negative]
  ELSE [positive |-> sets.positive, negative |-> sets.negative \cup {entry.keySum}]

\* the for loop is at a cell that is not pure
ListSkip ==
  /\ bench.ret = "none"
  /\ bench.i < TableSize(bench.peeled)
  /\ ~isPure(bench.peeled[bench.i])
  /\ bench' = [bench EXCEPT !.i = @ + 1]
  /\ UNCHANGED <<eng, now, pit, net, budget>>

\* the for loop is at a pure cell whose key has bad peers: return false
ListFail ==
  /\ bench.ret = "none"
  /\ bench.i < TableSize(bench.peeled)
  /\ isPure(bench.peeled[bench.i])
  /\ badPeers(bench.peeled, bench.peeled[bench.i].keySum)
  /\ bench' = [bench EXCEPT !.ret = "false"]
  /\ UNCHANGED <<eng, now, pit, net, budget>>

\* the for loop is at a pure cell: its key is reported and peeled
ListPeel ==
  /\ bench.ret = "none"
  /\ bench.i < TableSize(bench.peeled)
  /\ isPure(bench.peeled[bench.i])
  /\ ~badPeers(bench.peeled, bench.peeled[bench.i].keySum)
  /\ bench.peels < TableSize(bench.t) + MaxExtraPeels
  /\ bench' = [bench EXCEPT
       !.sets = reported(@, bench.peeled[bench.i]),
       !.peeled = update(@, -bench.peeled[bench.i].count, bench.peeled[bench.i].keySum),
       !.peeledSomething = TRUE,
       !.peels = @ + 1,
       !.log = Append(@, [cell |-> bench.i, key |-> bench.peeled[bench.i].keySum,
                          count |-> bench.peeled[bench.i].count]),
       !.i = @ + 1]
  /\ UNCHANGED <<eng, now, pit, net, budget>>

\* the for loop is over: once more while (peeledSomething), else return true
ListPassEnd ==
  /\ bench.ret = "none"
  /\ bench.i = TableSize(bench.peeled)
  /\ bench' = IF bench.peeledSomething
              THEN [bench EXCEPT !.i = 0, !.peeledSomething = FALSE]
              ELSE [bench EXCEPT !.ret = "true"]
  /\ UNCHANGED <<eng, now, pit, net, budget>>

NextList == ListSkip \/ ListFail \/ ListPeel \/ ListPassEnd

InitList ==
  /\ eng = <<>>
  /\ now = 0
  /\ pit = <<>>
  /\ net = {}
  /\ budget = <<>>
  /\ \E t \in ListTables :
       bench = [op |-> "listing", t |-> t, peeled |-> t, i |-> 0,
                sets |-> [positive |-> {}, negative |-> {}],
                peeledSomething |-> FALSE, peels |-> 0, log |-> <<>>, ret |-> "none"]

SpecList == InitList /\ [][NextList]_vars

\* C39: listEntries terminates on every IBLT, corrupt or adversarial tables
\* received from a peer included: each peel empties one more cell, so it
\* performs at most N peels before it returns.
C39_AtMostNPeels ==
  bench.op = "listing" => bench.peels <= TableSize(bench.t)

\* the keys the peels so far found in a pure cell of the given count
loggedWith(count) ==
  {bench.log[k].key : k \in {j \in DOMAIN bench.log : bench.log[j].count = count}}

\* the cell c of the table t has a count of 1 or -1 and the check hash of
\* its keySum
pureCell(t, c) ==
  /\ t[c].count \in {1, -1}
  /\ t[c].keyCheck = murmurHash3(N_HASHCHECK, t[c].keySum)

\* the for loop of the step is at a pure cell whose key has bad peers
meetsBad ==
  /\ bench.ret = "none"
  /\ bench.i < TableSize(bench.peeled)
  /\ pureCell(bench.peeled, bench.i)
  /\ hasBadPeer(bench.peeled, bench.peeled[bench.i].keySum)

\* C35: listEntries returns false exactly when it meets a pure cell whose key
\* has bad peers, and otherwise returns true only when the peeled copy has no
\* pure cell left; each key it reports goes to positive if the count of the
\* pure cell was +1 and to negative if it was -1, and the IBLT it is called
\* on is left unchanged. (listEntries, as the engine calls it, returns what
\* the loop followed cell by cell returns.)
C35_ListReturns ==
  /\ [][ /\ (bench'.ret = "false") <=> (meetsBad \/ bench.ret = "false")
         /\ bench'.t = bench.t ]_vars
  /\ [](bench.op = "listing" =>
          /\ bench.ret = "true" =>
               \A c \in DOMAIN bench.peeled : ~pureCell(bench.peeled, c)
          /\ bench.sets.positive = loggedWith(1)
          /\ bench.sets.negative = loggedWith(-1)
          /\ bench.ret # "none" =>
               /\ listEntries(bench.t).ok = (bench.ret = "true")
               /\ listEntries(bench.t).positive = bench.sets.positive
               /\ listEntries(bench.t).negative = bench.sets.negative)

\* listEntries returned false after it had reported a key with the count 1
\* and a key with the count -1
C35_Witness ==
  /\ bench.op = "listing"
  /\ bench.ret = "false"
  /\ loggedWith(1) # {}
  /\ loggedWith(-1) # {}

(***************************************************************************)
(* The member IBLT once its digests have aged out                          *)
(***************************************************************************)
\* the engine e has admitted nothing during the last maxPubLifetime +
\* maxClockSkew
quietFor(e) ==
  \A rec \in e.admitted : rec.t0 + maxPubLifetime + maxClockSkew <= now

\* C36: whenever no publication has been admitted during the last
\* maxPubLifetime + maxClockSkew (and the events due have run), the member
\* IBLT is all-empty: every digest the engine inserted is erased by its event
\* at L+S, and that erase is never suppressed by the badPeers interlock.
C36_AgedOutEmpty ==
  /\ [](\A n \in DOMAIN eng :
          (quietFor(eng[n]) /\ ~timerDue(eng[n])) => allEmpty(eng[n].m_iblt))
  /\ [][\A n \in DOMAIN eng : eraseFires(n) =>
          /\ ~hasBadPeer(eng[n].m_iblt, firstTimer(eng[n]).hash)
          /\ erasedFrom(eng[n].m_iblt, eng'[n].m_iblt, firstTimer(eng[n]).hash)]_vars

\* an engine that admitted a publication of its own and one of a peer, none
\* during the last maxPubLifetime + maxClockSkew
C36_Witness ==
  \E n \in DOMAIN eng :
    /\ quietFor(eng[n])
    /\ ~timerDue(eng[n])
    /\ \E r1, r2 \in eng[n].admitted : r1.local /\ ~r2.local
    /\ allEmpty(eng[n].m_iblt)

(***************************************************************************)
(* The store and the side table                                            *)
(***************************************************************************)
\* C40: in every reachable state the publication store and the digest side
\* table are in one-to-one correspondence: every handle in the store is the
\* side-table value of its own digest, every side-table value is a handle in
\* the store, and the two have the same number of entries.
C40_StoreMatchesSideTable ==
  \A n \in DOMAIN eng :
    /\ \A p \in DOMAIN eng[n].m_active :
         /\ hashPub(p.pub) \in DOMAIN eng[n].m_hash2pub
         /\ eng[n].m_hash2pub[hashPub(p.pub)] = p
    /\ \A h \in DOMAIN eng[n].m_hash2pub :
         eng[n].m_hash2pub[h] \in DOMAIN eng[n].m_active
    /\ Cardinality(DOMAIN eng[n].m_active) = Cardinality(DOMAIN eng[n].m_hash2pub)

\* an engine whose store still holds a handle after another handle has been
\* removed from it
C40_Witness ==
  \E n \in DOMAIN eng :
    /\ DOMAIN eng[n].m_active # {}
    /\ \E rec \in eng[n].admitted : handleOf(rec) \notin DOMAIN eng[n].m_active

(***************************************************************************)
(* The entries of m_interests past their deadline: one engine, subscribed  *)
(* with a callback that publishes, receiving sync interests and a Data of  *)
(* a peer, while its scheduler runs and time passes up to MaxWait          *)
(***************************************************************************)
\* the publication the peer's Data carries at the present instant
peerPub == [name |-> <<Comp(1), Comp(101), TimestampComp(now)>>, content |-> 0]

\* the publishes of the application, and the sync interests of the peer
MaxLinger == 1

NextLinger ==
  \/ \E n \in DOMAIN eng : RegisterSuccess(n)
  \/ \E n \in DOMAIN eng : bench.publishes < MaxLinger /\ PublishNow(n)
  \/ \E n \in DOMAIN eng : \E t \in PeerTables :
       bench.syncs < MaxLinger /\ PeerSync(n, t)
  \/ \E n \in DOMAIN eng : PeerData(n, peerPub)
  \/ \E msg \in net : DeliverInterest(msg)
  \/ \E msg \in net : DeliverData(msg)
  \/ \E n \in DOMAIN eng : FireTimer(n)
  \/ Wait

InitLinger ==
  /\ eng = (2 :> NewEngine(2, 0, (<<Comp(1)>> :> "reply")))
  /\ now = 0
  /\ pit = (2 :> {})
  /\ net = {}
  /\ budget = (2 :> <<>>)
  /\ bench = [op |-> "linger", publishes |-> 0, syncs |-> 0, overdue |-> {},
              data |-> 0]

\* the face of a node holds an interest, or a Data, it can hand over
holdsInterest == noTimerDue /\ \E msg \in net : msg.kind = "I"
holdsData == noTimerDue /\ \E msg \in net : msg.kind = "D"

\* the scheduler runs every event that is due, the face hands over what it
\* holds, and time passes; nothing obliges the application or a peer to act.
\* The first three conditions are the weak fairness of FireTimer,
\* DeliverInterest and DeliverData, with ENABLED written as the guard of the
\* action.
FairLinger ==
  /\ ([]<>(~timerDue(eng[2])) \/ []<><<FireTimer(2)>>_vars)
  /\ ([]<>(~holdsInterest) \/ []<><<\E msg \in net : DeliverInterest(msg)>>_vars)
  /\ ([]<>(~holdsData) \/ []<><<\E msg \in net : DeliverData(msg)>>_vars)
  /\ WF_vars(Wait)

SpecLinger == InitLinger /\ [][NextLinger]_vars /\ FairLinger

=============================================================================
